---- MODULE Spec2Model ----
(***************************************************************************)
(* The sharded crawl-state pipeline of berch-v2:                           *)
(*   export-batches.js  (partitioner; second script of fetch-artifacts.js) *)
(*   scrape-batch.js / scrape-batch-with-mem.js  (shard worker)            *)
(*   import-artifacts.js  (result importer)                                *)
(*   utils.js / scrape-match-summary.js  (event reconciliation)            *)
(* over the MongoDB collections matches and match_details.                 *)
(***************************************************************************)
EXTENDS Integers, Sequences, FiniteSets, TLC

(* ------------------------------ bounds -------------------------------- *)
NumMatches == 3        \* documents in the matches collection
MaxLimit == 2          \* largest --limit given on the command line
MaxStart == 2          \* largest --start given on the command line
MaxExports == 1        \* partitioner runs in one behaviour
MaxWorkerRuns == 1     \* worker runs in one behaviour
MaxImports == 2        \* importer runs in one behaviour
MaxFiles == 2          \* result files in a directory handed to the importer
MaxEntries == 2        \* entries of a result file handed to the importer
MaxEvents == 2         \* events extracted from one match page

(* ------------------------- program constants -------------------------- *)
DefaultLimit == 2500   \* const LIMIT = +argv.limit || 2500

MatchIds == 1..NumMatches
Slots == 1..NumMatches          \* batch-001.json, batch-002.json, ...

Absent == "absent"              \* a field that the document / JSON lacks
NullVal == "null"               \* a field stored as null

(* The exclusion lists the command line can carry. *)
CountryLists == {{}, {"England"}}
LeagueLists == {{}, {"La Liga"}}

(* ------------------------------ state --------------------------------- *)
VARIABLES
  matches,      \* collection matches: matchId -> document
  details,      \* collection match_details: a set of documents
  batches,      \* directory batches/: slot -> shard file content (<<>> = no file)
  xpc,          \* partitioner: "idle" | "cursor" | "write" | "mark" | "done" | "crashed"
  xargs,        \* partitioner: LIMIT, START, EX_COUNTRY, EX_LEAGUE
  xcur,         \* partitioner: documents the cursor has still to yield
  buf,          \* partitioner: buf
  fileIdx,      \* partitioner: fileIdx
  xruns,        \* partitioner runs started
  xstart,       \* the matches collection as it was when the running export began
  exported,     \* matchId -> processingAttempts it had when a flush queued it (-1: never)
  wpc,          \* worker: "idle" | "loop" | "write" | "done"
  wargs,        \* worker: script variant, --sample, BATCH_FILE slot
  batch,        \* worker: batch (the parsed shard file, after --sample)
  wshard,       \* the shard file content the worker read
  results,      \* worker: results
  wruns,        \* worker runs started
  resultsDir,   \* results directory: slot -> result file
  ipc,          \* importer: "idle" | "file" | "entries" | "done" | "crashed"
  jsonFiles,    \* importer: jsonFiles still to process, in readdir order
  ientries,     \* importer: entries of the current file still to process
  totals,       \* importer: totalProcessed, totalSuccessful, totalErrors
  iruns,        \* importer runs started
  istart,       \* the store and directory as they were when the running import began
  passes,       \* importer runs completed in a row with nothing else in between
  rawEvents,    \* scrape step: the event list extracted from the page
  events,       \* scrape step: summary.events, the event list emitted
  epc,          \* scrape step: "page" (events extracted) | "done" (summary returned)
  checkpoints,  \* collection checkpoints: a set of documents
  saved,        \* the data of the last saveCheckpoint call (NoSave: none yet)
  call,         \* database.js: the function last called and its arguments
  ret,          \* database.js: what that call returned, or that it threw
  importers,    \* importer processes running at the same time: process -> its locals
  exporters,    \* partitioner processes running at the same time: process -> its locals
  fetcher,      \* fetch-artifacts.js: its position and the artifacts it has still to process
  outDir        \* the directory fetch-artifacts.js saves into: a set of named files

vars == << matches, details, batches, xpc, xargs, xcur, buf, fileIdx, xruns, xstart,
           exported, wpc, wargs, batch, wshard, results, wruns, resultsDir, ipc,
           jsonFiles, ientries, totals, iruns, istart, passes, rawEvents, events, epc,
           checkpoints, saved, call, ret, importers, exporters, fetcher, outDir >>

storeVars == << matches, details >>
exportVars == << xpc, xargs, xcur, buf, fileIdx, xruns, xstart >>
workerVars == << wpc, wargs, batch, wshard, results, wruns >>
importVars == << ipc, jsonFiles, ientries, totals, iruns, istart >>
eventVars == << rawEvents, events, epc >>
dbVars == << checkpoints, saved, call, ret >>
peerVars == << importers, exporters >>
fetchVars == << fetcher, outDir >>

(* --------------------------- sequences -------------------------------- *)
Range(s) == {s[i] : i \in DOMAIN s}

RECURSIVE SortByScrapeId(_)
(* .sort({ scrapeId:1 }): the documents of S ascending in scrapeId. *)
SortByScrapeId(S) ==
  IF S = {} THEN << >>
  ELSE LET x == CHOOSE y \in S : \A z \in S : y.scrapeId <= z.scrapeId
       IN << x >> \o SortByScrapeId(S \ {x})

(* --------------------------- the store -------------------------------- *)
(* A freshly discovered match (schema.js createMatch): pending, with a     *)
(* provisional internalId and the discovery-time date.                     *)
NewMatch(m) ==
  [ matchId |-> m,
    scrapeId |-> NumMatches + 1 - m,
    country |-> IF m % 2 = 1 THEN "England" ELSE "Spain",
    league |-> IF m % 3 = 0 THEN "La Liga" ELSE "Premier League",
    processingStatus |-> "pending",
    processingAttempts |-> 0,
    date |-> "d0",
    internalId |-> "prov" ]

NoArgs == [ limit |-> 0, start |-> 0, exCountry |-> {}, exLeague |-> {} ]
NoWArgs == [ variant |-> "none", sample |-> 0, slot |-> 0 ]
NoTotals == [ processed |-> 0, successful |-> 0, errors |-> 0 ]
NoStart == [ matches |-> << >>, details |-> {}, dir |-> << >>, order |-> << >> ]
NoCall == [ op |-> "none" ]
NoSave == [ op |-> "none" ]
NoRet == [ threw |-> FALSE, value |-> "none" ]
NoFetcher ==
  [ pc |-> "idle", artifacts |-> << >>, successCount |-> 0, errorCount |-> 0, saved |-> {} ]


(* ===================== export-batches.js (partitioner) ================= *)

(* const LIMIT = +argv.limit || 2500 *)
LimitOf(limitArg) == IF limitArg = 0 THEN DefaultLimit ELSE limitArg

(* The query with $gt in place of $gte. *)
Query_StartExclusive(doc, args) ==
  /\ doc.processingStatus = "pending"
  /\ (args.start # 0 => doc.scrapeId > args.start)
  /\ (args.exCountry # {} => doc.country \notin args.exCountry)
  /\ (args.exLeague # {} => doc.league \notin args.exLeague)

(* The query object: processingStatus 'pending', and the optional parts,   *)
(* each added only when its argument is truthy / non-empty.                *)
Query(doc, args) ==
  /\ doc.processingStatus = "pending"
  /\ (args.start # 0 => doc.scrapeId >= args.start)
  /\ (args.exCountry # {} => doc.country \notin args.exCountry)
  /\ (args.exLeague # {} => doc.league \notin args.exLeague)

(* .project({ scrapeId:1, matchId:1, _id:0 }) *)
Project(doc) == [ scrapeId |-> doc.scrapeId, matchId |-> doc.matchId ]

(* db.collection('matches').find(query).project(..).sort({ scrapeId:1 }) *)
Cursor(coll, args) ==
  LET hit == SortByScrapeId({coll[m] : m \in {k \in DOMAIN coll : Query(coll[k], args)}})
  IN [i \in DOMAIN hit |-> Project(hit[i])]

(* updateMany({ matchId:{ $in: ids } }, { $set:{ processingStatus:'queued' } }) *)
MarkQueued(coll, ids) ==
  [m \in DOMAIN coll |->
     IF m \in ids THEN [coll[m] EXCEPT !.processingStatus = "queued"] ELSE coll[m]]

(* The script starts: arguments parsed, cursor opened, buf=[], fileIdx=0.  *)
ExportStart ==
  /\ xpc \in {"idle", "done", "crashed"}
  /\ xruns < MaxExports
  /\ \E limitArg \in 0..MaxLimit, start \in 0..MaxStart,
        exc \in CountryLists, exl \in LeagueLists :
        LET args == [ limit |-> LimitOf(limitArg), start |-> start,
                      exCountry |-> exc, exLeague |-> exl ]
        IN /\ xargs' = args
           /\ xcur' = Cursor(matches, args)
  /\ buf' = << >>
  /\ fileIdx' = 0
  /\ xpc' = "cursor"
  /\ xruns' = xruns + 1
  /\ xstart' = matches
  /\ UNCHANGED << dbVars, peerVars, fetchVars, storeVars, batches, exported, workerVars, resultsDir,
                  importVars, passes, eventVars >>

(* The loop flushing only once buf has grown past LIMIT. *)
ExportNext_FlushLate ==
  /\ xpc = "cursor"
  /\ xcur # << >>
  /\ buf' = Append(buf, Head(xcur))
  /\ xcur' = Tail(xcur)
  /\ xpc' = IF Len(buf') > xargs.limit THEN "write" ELSE "cursor"
  /\ UNCHANGED << dbVars, peerVars, fetchVars, storeVars, batches, xargs, fileIdx, xruns, xstart,
                  exported, workerVars, resultsDir, importVars, passes, eventVars >>

(* for await (const m of cur) { buf.push(m); if (buf.length===LIMIT) await flush(); } *)
ExportNext ==
  /\ xpc = "cursor"
  /\ xcur # << >>
  /\ buf' = Append(buf, Head(xcur))
  /\ xcur' = Tail(xcur)
  /\ xpc' = IF Len(buf') = xargs.limit THEN "write" ELSE "cursor"
  /\ UNCHANGED << dbVars, peerVars, fetchVars, storeVars, batches, xargs, fileIdx, xruns, xstart, exported,
                  workerVars, resultsDir, importVars, passes, eventVars >>

(* if (buf.length) await flush();  await client.close(); *)
ExportTail ==
  /\ xpc = "cursor"
  /\ xcur = << >>
  /\ IF buf # << >>
     THEN /\ xpc' = "write"
          /\ UNCHANGED << xargs, xstart >>
     ELSE /\ xpc' = "done"
          /\ xargs' = NoArgs
          /\ xstart' = << >>
  /\ UNCHANGED << dbVars, peerVars, fetchVars, storeVars, batches, xcur, buf, fileIdx, xruns, exported,
                  workerVars, resultsDir, importVars, passes, eventVars >>

(* flush(), first half: fileIdx++; await fs.writeFile(name, JSON.stringify(buf)) *)
FlushWrite ==
  /\ xpc = "write"
  /\ fileIdx' = fileIdx + 1
  /\ batches' = [batches EXCEPT ![fileIdx + 1] = buf]
  /\ xpc' = "mark"
  /\ UNCHANGED << dbVars, peerVars, fetchVars, storeVars, xargs, xcur, buf, xruns, xstart, exported,
                  workerVars, resultsDir, importVars, passes, eventVars >>

(* flush() with updateMany ahead of writeFile: the records are queued when  *)
(* the write fails.                                                        *)
FlushWriteFails_MarksFirst ==
  /\ xpc = "write"
  /\ fileIdx' = fileIdx + 1
  /\ xpc' = "crashed"
  /\ matches' = [m \in DOMAIN matches |->
                   IF m \in {buf[i].matchId : i \in DOMAIN buf}
                   THEN [matches[m] EXCEPT !.processingStatus = "queued"]
                   ELSE matches[m]]
  /\ UNCHANGED << dbVars, peerVars, fetchVars, details, batches, xargs, xcur, buf, xruns, xstart, exported,
                  workerVars, resultsDir, importVars, passes, eventVars >>

(* flush(), writeFile rejects: the top-level await throws and the script   *)
(* dies before updateMany is reached.                                      *)
FlushWriteFails ==
  /\ xpc = "write"
  /\ fileIdx' = fileIdx + 1
  /\ xpc' = "crashed"
  /\ UNCHANGED << dbVars, peerVars, fetchVars, storeVars, batches, xargs, xcur, buf, xruns, xstart, exported,
                  workerVars, resultsDir, importVars, passes, eventVars >>

(* flush(), second half: ids=buf.map(x=>x.matchId); updateMany(..); buf=[] *)
FlushMark ==
  /\ xpc = "mark"
  /\ LET ids == {buf[i].matchId : i \in DOMAIN buf}
     IN /\ matches' = MarkQueued(matches, ids)
        /\ exported' = [m \in DOMAIN exported |->
                          IF m \in ids THEN matches[m].processingAttempts
                          ELSE exported[m]]
  /\ buf' = << >>
  /\ xpc' = "cursor"
  /\ passes' = 0
  /\ UNCHANGED << dbVars, peerVars, fetchVars, details, batches, xargs, xcur, fileIdx, xruns, xstart,
                  workerVars, resultsDir, importVars, eventVars >>

ExportStep ==
  \/ ExportStart
  \/ ExportNext
  \/ ExportTail
  \/ FlushWrite
  \/ FlushWriteFails
  \/ FlushMark

(* -------------------- properties of the partitioner -------------------- *)
ShardIds(shard) == {shard[i].matchId : i \in DOMAIN shard}

(* The matches that were pending and passed the filter when the run began. *)
PendingAtStart ==
  {m \in DOMAIN xstart :
     /\ xstart[m].processingStatus = "pending"
     /\ xstart[m].scrapeId >= xargs.start
     /\ xstart[m].country \notin xargs.exCountry
     /\ xstart[m].league \notin xargs.exLeague}

(* C2: when a partitioner run ends, the {scrapeId, matchId} pairs of the   *)
(* shard files it wrote are exactly those of the matches that were pending *)
(* and passed the filter when it started, and no match is in two shards.   *)
C2_PartitionComplete ==
  [][ (xpc = "cursor" /\ xpc' = "done") =>
        /\ UNION {Range(batches'[k]) : k \in 1..fileIdx}
             = {Project(xstart[m]) : m \in PendingAtStart}
        /\ \A j, k \in 1..fileIdx :
             j # k => ShardIds(batches'[j]) \cap ShardIds(batches'[k]) = {}
        /\ \A k \in 1..fileIdx : Cardinality(ShardIds(batches'[k])) = Len(batches'[k]) ]_vars

(* A run has ended with two shards written, over a store in which one      *)
(* match was not pending or did not pass the filter.                       *)
C2_Witness ==
  /\ xpc = "done" /\ fileIdx = 2
  /\ \E m \in MatchIds : matches[m].processingStatus # "queued"

(* C3: a record is queued by a run only once the shard file that lists it  *)
(* is on disk, and when writing a shard's file fails none of that shard's  *)
(* records is queued.                                                      *)
C3_QueuedAfterWrite ==
  /\ xpc = "crashed" =>
       \A i \in DOMAIN buf :
          matches[buf[i].matchId].processingStatus = xstart[buf[i].matchId].processingStatus
  /\ xpc \in {"cursor", "write", "mark", "crashed"} =>
       \A m \in DOMAIN matches :
          (matches[m].processingStatus = "queued" /\ xstart[m].processingStatus # "queued")
            => \E k \in 1..fileIdx : m \in ShardIds(batches[k])

(* The write of a run's second shard has failed after its first shard was  *)
(* written and queued.                                                     *)
C3_Witness ==
  /\ xpc = "crashed" /\ fileIdx = 2 /\ buf # << >>
  /\ \E m \in ShardIds(batches[1]) :
       matches[m].processingStatus = "queued" /\ xstart[m].processingStatus = "pending"

(* The smaller of two numbers. *)
Min(a, b) == IF a < b THEN a ELSE b

(* C23: when a partitioner run ends, the files it wrote are batch-001,     *)
(* batch-002, ... up to its fileIdx, without a gap; shard k holds positions (k-1)*limit+1 to  *)
(* k*limit of the selected records taken ascending in scrapeId; every      *)
(* shard but the last has limit entries, the last between 1 and limit,     *)
(* none is empty; an entry has the fields scrapeId and matchId only.       *)
C23_ShardsInOrder ==
  [][ (xpc = "cursor" /\ xpc' = "done") =>
        LET sel == Cursor(xstart, xargs)
            n == Len(sel)
            limit == xargs.limit
        IN /\ \A i, j \in DOMAIN sel : i < j => sel[i].scrapeId <= sel[j].scrapeId
           /\ {sel[i].matchId : i \in DOMAIN sel} = PendingAtStart
           /\ fileIdx * limit >= n /\ (fileIdx - 1) * limit < n
           /\ \A k \in 1..fileIdx :
                /\ batches'[k] = SubSeq(sel, (k - 1) * limit + 1, Min(k * limit, n))
                /\ Len(batches'[k]) \in 1..limit
                /\ k < fileIdx => Len(batches'[k]) = limit
                /\ \A i \in DOMAIN batches'[k] :
                     DOMAIN batches'[k][i] = {"scrapeId", "matchId"} ]_vars

(* A run has ended with a full first shard and a shorter second one.       *)
C23_Witness ==
  /\ xpc = "done" /\ fileIdx = 2
  /\ Len(batches[1]) > 1 /\ Len(batches[2]) \in 1..(Len(batches[1]) - 1)

(* ============ scrape-batch.js / scrape-batch-with-mem.js (worker) ====== *)

Dates == {"d1"}                 \* dates the scrape step can parse from the page
Payloads == {"p1", "p2"}        \* basicInfo / teams / events the scrape step can return
ErrMsgs == {"timeout", ""}      \* err.message of a failed scrape step
Variants == {"batch", "mem"}    \* scrape-batch.js, scrape-batch-with-mem.js

(* utils.js createInternalId: the id derived from the parsed date. *)
ProperId(d) == "id_" \o d

NoDetails ==
  [ present |-> FALSE, matchId |-> 0, internalId |-> Absent, payload |-> Absent,
    processingStatus |-> Absent ]

(* What extractMatchSummary can return: dateInfo is null or                *)
(* { parsedDate, properInternalId }.                                       *)
Summaries == [ dateInfo : {Absent} \cup Dates, payload : Payloads ]

(* schema.js createMatchDetails({ matchId, internalId, basicInfo, teams,   *)
(* events, processingStatus }): the defaults overwritten by the data; an   *)
(* internalId of undefined is lost when the results are serialised.        *)
createMatchDetails(matchId, internalId, payload, status) ==
  [ present |-> TRUE, matchId |-> matchId, internalId |-> internalId,
    payload |-> payload, processingStatus |-> status ]

(* summary.dateInfo?.properInternalId *)
ProperIdOf(dateInfo) == IF dateInfo = Absent THEN Absent ELSE ProperId(dateInfo)

(* The entry pushed after a successful scrape. *)
OkEntry(variant, e, summary) ==
  LET d == createMatchDetails(e.matchId, ProperIdOf(summary.dateInfo),
                              summary.payload, "complete")
  IN IF variant = "batch"
     THEN [ matchId |-> e.matchId, scrapeId |-> e.scrapeId, details |-> d,
            dateInfo |-> summary.dateInfo, error |-> Absent ]
     ELSE [ matchId |-> e.matchId, scrapeId |-> e.scrapeId, details |-> NoDetails,
            dateInfo |-> Absent, error |-> Absent ]

(* The entry pushed in the catch block. *)
ErrEntry(e, msg) ==
  [ matchId |-> e.matchId, scrapeId |-> e.scrapeId, details |-> NoDetails,
    dateInfo |-> Absent, error |-> msg ]

(* if (SAMPLE > 0) batch = batch.slice(0, SAMPLE)  (scrape-batch-with-mem.js only) *)
Sliced(variant, sample, shard) ==
  IF variant = "mem" /\ sample > 0 /\ sample < Len(shard)
  THEN SubSeq(shard, 1, sample)
  ELSE shard

NoFile == [ kind |-> "none", entries |-> << >> ]
JsonFile(entries) == [ kind |-> "json", entries |-> entries ]

(* The worker starts on a shard file: readFile, JSON.parse, slice. *)
WorkerStart ==
  /\ wpc \in {"idle", "done"}
  /\ wruns < MaxWorkerRuns
  /\ \E slot \in Slots, variant \in Variants, sample \in 0..NumMatches :
       /\ batches[slot] # << >>
       /\ (variant = "batch" => sample = 0)
       /\ wargs' = [ variant |-> variant, sample |-> sample, slot |-> slot ]
       /\ wshard' = batches[slot]
       /\ batch' = Sliced(variant, sample, batches[slot])
  /\ results' = << >>
  /\ wpc' = "loop"
  /\ wruns' = wruns + 1
  /\ UNCHANGED << dbVars, peerVars, fetchVars, storeVars, batches, exportVars, exported, resultsDir,
                  importVars, passes, eventVars >>

(* One turn of the loop, the scrape step succeeding. *)
WorkerScrapeOk ==
  /\ wpc = "loop"
  /\ Len(results) < Len(batch)
  /\ \E summary \in Summaries :
       results' = Append(results, OkEntry(wargs.variant, batch[Len(results) + 1], summary))
  /\ UNCHANGED << dbVars, peerVars, fetchVars, storeVars, batches, exportVars, exported, wpc, wargs, batch,
                  wshard, wruns, resultsDir, importVars, passes, eventVars >>

(* A failed scrape step ends the loop: the rest of the shard is dropped. *)
WorkerScrapeFails_Abort ==
  /\ wpc = "loop"
  /\ Len(results) < Len(batch)
  /\ \E msg \in ErrMsgs :
       results' = Append(results, ErrEntry(batch[Len(results) + 1], msg))
  /\ batch' = SubSeq(batch, 1, Len(results) + 1)
  /\ UNCHANGED << dbVars, peerVars, fetchVars, storeVars, batches, exportVars, exported, wpc, wargs,
                  wshard, wruns, resultsDir, importVars, passes, eventVars >>

(* One turn of the loop, the scrape step throwing (timeout, selector miss). *)
WorkerScrapeFails ==
  /\ wpc = "loop"
  /\ Len(results) < Len(batch)
  /\ \E msg \in ErrMsgs :
       results' = Append(results, ErrEntry(batch[Len(results) + 1], msg))
  /\ UNCHANGED << dbVars, peerVars, fetchVars, storeVars, batches, exportVars, exported, wpc, wargs, batch,
                  wshard, wruns, resultsDir, importVars, passes, eventVars >>

(* The loop is over: browser.close(); writeFile('output.json', results);   *)
(* the file reaches the results directory as the result file of its shard. *)
WorkerWrite ==
  /\ wpc = "loop"
  /\ Len(results) = Len(batch)
  /\ resultsDir' = [resultsDir EXCEPT ![wargs.slot] = JsonFile(results)]
  /\ wpc' = "done"
  /\ wargs' = NoWArgs
  /\ batch' = << >>
  /\ wshard' = << >>
  /\ results' = << >>
  /\ passes' = 0
  /\ UNCHANGED << dbVars, peerVars, fetchVars, storeVars, batches, exportVars, exported, wruns, importVars,
                  eventVars >>

(* A SIGTERM handler that saves what has been scraped so far. *)
WorkerKill_Flush ==
  /\ wpc = "loop"
  /\ Len(results) < Len(batch)
  /\ resultsDir' = [resultsDir EXCEPT ![wargs.slot] = JsonFile(results)]
  /\ wpc' = "killed"
  /\ UNCHANGED << dbVars, peerVars, fetchVars, storeVars, batches, exportVars, exported, wargs, batch,
                  wshard, results, wruns, importVars, passes, eventVars >>

(* The process is killed inside the loop, some match of the batch not yet  *)
(* scraped: results lives in memory only, writeFile('output.json') comes   *)
(* after the loop, and neither script installs a signal handler.           *)
WorkerKill ==
  /\ wpc = "loop"
  /\ Len(results) < Len(batch)
  /\ wpc' = "killed"
  /\ UNCHANGED << dbVars, peerVars, fetchVars, storeVars, batches, exportVars, exported, wargs, batch,
                  wshard, results, wruns, resultsDir, importVars, passes, eventVars >>

WorkerStep ==
  \/ WorkerStart
  \/ WorkerScrapeOk
  \/ WorkerScrapeFails
  \/ WorkerWrite

(* ---------------------- properties of the worker ----------------------- *)
(* The worker is taking the step that writes its output file. *)
WriteStep == wpc = "loop" /\ wpc' = "done"

(* out lists, in order, one entry for each of the first n entries of shard. *)
Aligned(out, shard, n) ==
  /\ Len(out) = n
  /\ \A i \in 1..n :
       out[i].matchId = shard[i].matchId /\ out[i].scrapeId = shard[i].scrapeId

(* The entries --sample leaves of a shard of len entries. *)
Sampled(len) ==
  IF wargs.variant = "mem" /\ wargs.sample > 0 /\ wargs.sample < len
  THEN wargs.sample ELSE len

(* C8 as stated: whatever the scrape steps do, the worker ends and its     *)
(* output file holds exactly one entry per shard entry, in shard order,    *)
(* with the matchId and scrapeId of that shard entry.                      *)
C8_OneEntryPerShardEntry ==
  /\ [][ WriteStep =>
           Aligned(resultsDir'[wargs.slot].entries, wshard, Len(wshard)) ]_vars
  /\ (wpc = "loop" ~> wpc = "done")

(* C8 amended: ... one entry per shard entry, or per entry of the first n  *)
(* shard entries when scrape-batch-with-mem.js is run with --sample n.     *)
C8_OneEntryPerProcessedEntry ==
  /\ [][ WriteStep =>
           Aligned(resultsDir'[wargs.slot].entries, wshard, Sampled(Len(wshard))) ]_vars
  /\ (wpc = "loop" ~> wpc = "done")

(* A worker has written a file of three entries whose first is an error    *)
(* and whose later ones are a success and an error.                        *)
C8_Witness ==
  /\ wpc = "done"
  /\ \E k \in Slots :
       LET out == resultsDir[k].entries
       IN /\ Len(out) = 3
          /\ out[1].error = "timeout"
          /\ out[2].details.present
          /\ out[3].error = "timeout"

(* C9: every entry of every result file carries exactly one of details and *)
(* error: details (processingStatus complete, the entry's matchId) and no  *)
(* error, or an error and no details.                                      *)
C9_DetailsXorError ==
  \A k \in Slots : \A i \in DOMAIN resultsDir[k].entries :
    LET e == resultsDir[k].entries[i]
    IN \/ /\ e.details.present
          /\ e.error = Absent
          /\ e.details.processingStatus = "complete"
          /\ e.details.matchId = e.matchId
       \/ /\ ~e.details.present
          /\ e.error # Absent

(* ===================== import-artifacts.js (importer) ================== *)

(* if (result.error): a missing or empty error is falsy. *)
Truthy(str) == str # Absent /\ str # ""

(* The first updateOne's $set throws a TypeError, before anything is sent, *)
(* when result.dateInfo?.properInternalId is missing and result.details is *)
(* undefined.                                                              *)
SetThrows(e) == e.dateInfo = Absent /\ ~e.details.present

(* date: result.dateInfo?.parsedDate || null *)
DateOf(e) == IF e.dateInfo = Absent THEN NullVal ELSE e.dateInfo

(* internalId: result.dateInfo?.properInternalId || result.details.internalId; *)
(* an undefined value is stored as null.                                    *)
InternalIdOf(e) ==
  IF e.dateInfo # Absent THEN ProperId(e.dateInfo)
  ELSE IF e.details.internalId = Absent THEN NullVal
  ELSE e.details.internalId

(* The update done through updateMatchStatus instead, with its $inc. *)
UpdateMatch_Inc(coll, e) ==
  [m \in DOMAIN coll |->
     IF m = e.matchId
     THEN [coll[m] EXCEPT !.processingStatus = "complete",
                          !.date = DateOf(e),
                          !.internalId = InternalIdOf(e),
                          !.processingAttempts = @ + 1]
     ELSE coll[m]]

(* db.collection('matches').updateOne({ matchId }, { $set: { processingStatus: *)
(* 'complete', date, internalId, updatedAt } }): no upsert.                  *)
UpdateMatch(coll, e) ==
  [m \in DOMAIN coll |->
     IF m = e.matchId
     THEN [coll[m] EXCEPT !.processingStatus = "complete",
                          !.date = DateOf(e),
                          !.internalId = InternalIdOf(e)]
     ELSE coll[m]]

(* $set: { ...result.details, updatedAt }: the fields the details carry    *)
(* replace the stored ones, the others stay.                               *)
SetFields(doc, d) ==
  [ matchId |-> IF d.present THEN d.matchId ELSE doc.matchId,
    internalId |-> IF d.internalId # Absent THEN d.internalId ELSE doc.internalId,
    payload |-> IF d.payload # Absent THEN d.payload ELSE doc.payload,
    processingStatus |-> IF d.processingStatus # Absent THEN d.processingStatus
                         ELSE doc.processingStatus ]

(* insertOne in place of the upsert. *)
UpsertDetails_Insert(coll, e) ==
  coll \cup { SetFields([ matchId |-> e.matchId, internalId |-> Absent,
                          payload |-> Absent, processingStatus |-> Absent ],
                        e.details) }

(* db.collection('match_details').updateOne({ matchId }, { $set }, { upsert: true }) *)
UpsertDetails(coll, e) ==
  LET hits == {doc \in coll : doc.matchId = e.matchId}
  IN IF hits = {}
     THEN coll \cup { SetFields([ matchId |-> e.matchId, internalId |-> Absent,
                                  payload |-> Absent, processingStatus |-> Absent ],
                                e.details) }
     ELSE LET doc == CHOOSE x \in hits : TRUE
          IN (coll \ {doc}) \cup { SetFields(doc, e.details) }

(* An entry with an error marks its match failed. *)
ApplyEntry_MarkFailed(store, e) ==
  IF Truthy(e.error)
  THEN [ matches |-> [m \in DOMAIN store.matches |->
                        IF m = e.matchId
                        THEN [store.matches[m] EXCEPT !.processingStatus = "failed"]
                        ELSE store.matches[m]],
         details |-> store.details ]
  ELSE IF SetThrows(e) THEN store
  ELSE [ matches |-> UpdateMatch(store.matches, e),
         details |-> UpsertDetails(store.details, e) ]

(* The body of the inner loop for one entry: what it does to the store ... *)
ApplyEntry(store, e) ==
  IF Truthy(e.error) \/ SetThrows(e)
  THEN store
  ELSE [ matches |-> UpdateMatch(store.matches, e),
         details |-> UpsertDetails(store.details, e) ]

(* ... and to the counters. *)
CountEntry(t, e) ==
  IF Truthy(e.error) \/ SetThrows(e)
  THEN [t EXCEPT !.processed = @ + 1, !.errors = @ + 1]
  ELSE [t EXCEPT !.processed = @ + 1, !.successful = @ + 1]

(* The orders in which readdir can list the files present. *)
Listings(dir) ==
  LET present == {k \in DOMAIN dir : dir[k].kind # "none"}
  IN {f \in [1..Cardinality(present) -> present] :
        \A i, j \in DOMAIN f : i # j => f[i] # f[j]}

(* The importer starts: connect, readdir, filter, counters at 0. *)
ImportStart ==
  /\ ipc \in {"idle", "done"}
  /\ iruns < MaxImports
  /\ jsonFiles' \in Listings(resultsDir)
  /\ ientries' = << >>
  /\ totals' = NoTotals
  /\ ipc' = "file"
  /\ iruns' = iruns + 1
  /\ istart' = [ matches |-> matches, details |-> details, dir |-> resultsDir,
                 order |-> jsonFiles' ]
  /\ passes' = IF istart.dir = resultsDir /\ istart.order = jsonFiles' THEN passes ELSE 0
  /\ UNCHANGED << dbVars, peerVars, fetchVars, storeVars, batches, exportVars, exported, workerVars,
                  resultsDir, eventVars >>

(* for (const file of jsonFiles): readFile and JSON.parse succeed. *)
ImportFile ==
  /\ ipc = "file"
  /\ jsonFiles # << >>
  /\ resultsDir[Head(jsonFiles)].kind = "json"
  /\ ientries' = resultsDir[Head(jsonFiles)].entries
  /\ jsonFiles' = Tail(jsonFiles)
  /\ ipc' = "entries"
  /\ UNCHANGED << dbVars, peerVars, fetchVars, storeVars, batches, exportVars, exported, workerVars,
                  resultsDir, totals, iruns, istart, passes, eventVars >>

(* The error of a damaged file escapes main and ends the run. *)
ImportBadFile_Abort ==
  /\ ipc = "file"
  /\ jsonFiles # << >>
  /\ resultsDir[Head(jsonFiles)].kind # "json"
  /\ jsonFiles' = << >>
  /\ ipc' = "crashed"
  /\ UNCHANGED << dbVars, peerVars, fetchVars, storeVars, batches, exportVars, exported, workerVars,
                  resultsDir, ientries, totals, iruns, istart, passes, eventVars >>

(* readFile or JSON.parse throws, or the parsed value is not iterable: the *)
(* outer catch logs it and the loop goes on with the next file.            *)
ImportBadFile ==
  /\ ipc = "file"
  /\ jsonFiles # << >>
  /\ resultsDir[Head(jsonFiles)].kind # "json"
  /\ jsonFiles' = Tail(jsonFiles)
  /\ UNCHANGED << dbVars, peerVars, fetchVars, storeVars, batches, exportVars, exported, workerVars,
                  resultsDir, ipc, ientries, totals, iruns, istart, passes, eventVars >>

(* An entry that is null in the result file. *)
NullEntry == [ null |-> TRUE ]
IsNull(e) == "null" \in DOMAIN e

(* for (const result of results), result being null: result.error throws  *)
(* a TypeError inside the inner try; its catch block evaluates             *)
(* result.matchId for the message and throws again, before totalErrors++;  *)
(* the outer catch logs "Error processing file" and the loop goes on with  *)
(* the next file.                                                          *)
ImportNullEntry ==
  /\ ipc = "entries"
  /\ ientries # << >>
  /\ IsNull(Head(ientries))
  /\ totals' = [totals EXCEPT !.processed = @ + 1]
  /\ ientries' = << >>
  /\ ipc' = "file"
  /\ UNCHANGED << dbVars, peerVars, fetchVars, storeVars, batches, exportVars, exported,
                  workerVars, resultsDir, jsonFiles, iruns, istart, passes, eventVars >>

(* for (const result of results): one entry. *)
ImportEntry ==
  /\ ipc = "entries"
  /\ ientries # << >>
  /\ ~IsNull(Head(ientries))
  /\ LET e == Head(ientries)
         store == ApplyEntry([ matches |-> matches, details |-> details ], e)
     IN /\ matches' = store.matches
        /\ details' = store.details
        /\ totals' = CountEntry(totals, e)
  /\ ientries' = Tail(ientries)
  /\ UNCHANGED << dbVars, peerVars, fetchVars, batches, exportVars, exported, workerVars, resultsDir, ipc,
                  jsonFiles, iruns, istart, passes, eventVars >>

(* The entries of the file are done: "Completed file". *)
ImportFileDone ==
  /\ ipc = "entries"
  /\ ientries = << >>
  /\ ipc' = "file"
  /\ UNCHANGED << dbVars, peerVars, fetchVars, storeVars, batches, exportVars, exported, workerVars,
                  resultsDir, jsonFiles, ientries, totals, iruns, istart, passes,
                  eventVars >>

(* The files are done: the summary is printed, the connection closed. *)
ImportEnd ==
  /\ ipc = "file"
  /\ jsonFiles = << >>
  /\ ipc' = "done"
  /\ passes' = IF istart.dir = resultsDir THEN passes + 1 ELSE 0
  /\ UNCHANGED << dbVars, peerVars, fetchVars, storeVars, batches, exportVars, exported, workerVars,
                  resultsDir, jsonFiles, ientries, totals, iruns, istart, eventVars >>

ImportStep ==
  \/ ImportStart
  \/ ImportFile
  \/ ImportBadFile
  \/ ImportEntry
  \/ ImportFileDone
  \/ ImportEnd

(* A result file arrives damaged in the results directory (a truncated or  *)
(* non-array JSON file).                                                   *)
DamageFile ==
  /\ \E slot \in Slots, kind \in {"garbage", "object"} :
       /\ resultsDir[slot].kind = "json"
       /\ resultsDir' = [resultsDir EXCEPT ![slot] = [ kind |-> kind, entries |-> << >> ]]
  /\ passes' = 0
  /\ UNCHANGED << dbVars, peerVars, fetchVars, storeVars, batches, exportVars, exported, workerVars,
                  importVars, eventVars >>

(* --------------------- properties of the importer ---------------------- *)
Store == [ matches |-> matches, details |-> details ]

DetailsOf(coll, m) == {doc \in coll : doc.matchId = m}

DetailFields == {"internalId", "payload", "processingStatus"}

(* The importer is taking the step that processes entry Head(ientries). *)
EntryStep == ipc = "entries" /\ ientries # << >> /\ ientries' = Tail(ientries)

(* A success entry: details and no error. *)
IsSuccess(e) == e.details.present /\ e.error = Absent

RECURSIVE ImportEntries(_, _)
ImportEntries(store, entries) ==
  IF entries = << >> THEN store
  ELSE ImportEntries(ApplyEntry(store, Head(entries)), Tail(entries))

RECURSIVE ImportFiles(_, _, _)
ImportFiles(store, order, dir) ==
  IF order = << >> THEN store
  ELSE ImportFiles(ImportEntries(store, dir[Head(order)].entries), Tail(order), dir)

IsJson(k) == resultsDir[k].kind = "json"

(* C1: a second import of the same result files, nothing else having run   *)
(* in between, leaves matches and match_details as the first import left   *)
(* them (status, attempts, date, internalId and stored details alike).     *)
C1_ReimportSameStore ==
  (ipc = "done" /\ passes >= 2) =>
     (matches = istart.matches /\ details = istart.details)

(* A second import in a row has ended, over files that made the first one  *)
(* complete a match and store its details.                                 *)
C1_Witness ==
  /\ ipc = "done" /\ passes >= 2 /\ totals.successful > 0
  /\ \E m \in MatchIds : matches[m].processingStatus = "complete"
                          /\ DetailsOf(details, m) # {}

(* C5 as stated: a success entry for an existing match sets the status to  *)
(* complete and the internalId to dateInfo.properInternalId, or else to    *)
(* the internalId embedded in the details, and leaves exactly one          *)
(* match_details document for the matchId, whose fields are those of the   *)
(* entry's details.                                                        *)
C5_DetailsAreTheEntrys ==
  [][ (EntryStep /\ IsSuccess(Head(ientries))
         /\ Head(ientries).matchId \in DOMAIN matches) =>
      LET e == Head(ientries)
          m == e.matchId
      IN /\ matches'[m].processingStatus = "complete"
         /\ matches'[m].internalId =
              (IF e.dateInfo # Absent THEN ProperId(e.dateInfo)
               ELSE IF e.details.internalId = Absent THEN NullVal
               ELSE e.details.internalId)
         /\ Cardinality(DetailsOf(details', m)) = 1
         /\ \A doc \in DetailsOf(details', m) :
              \A f \in DetailFields : doc[f] = e.details[f] ]_vars

(* C5 amended: ... leaves exactly one match_details document for the       *)
(* matchId, in which every field the entry's details carry has the entry's *)
(* value, and a field they lack keeps the value stored before (none when   *)
(* the document is new).                                                   *)
C5_DetailsFieldsSet ==
  [][ (EntryStep /\ IsSuccess(Head(ientries))
         /\ Head(ientries).matchId \in DOMAIN matches) =>
      LET e == Head(ientries)
          m == e.matchId
          old == DetailsOf(details, m)
      IN /\ matches'[m].processingStatus = "complete"
         /\ matches'[m].internalId =
              (IF e.dateInfo # Absent THEN ProperId(e.dateInfo)
               ELSE IF e.details.internalId = Absent THEN NullVal
               ELSE e.details.internalId)
         /\ Cardinality(DetailsOf(details', m)) = 1
         /\ \A doc \in DetailsOf(details', m) :
              \A f \in DetailFields :
                 doc[f] = IF e.details[f] # Absent THEN e.details[f]
                          ELSE IF old = {} THEN Absent
                          ELSE (CHOOSE o \in old : TRUE)[f] ]_vars

(* A success entry without dateInfo has been imported over a stored        *)
(* document: the match is complete with a null internalId, its one details *)
(* document has the new payload and still the internalId stored before.    *)
C5_Witness ==
  \E m \in MatchIds :
    /\ matches[m].processingStatus = "complete"
    /\ matches[m].internalId = NullVal
    /\ \E doc \in details :
         doc.matchId = m /\ doc.internalId = ProperId("d1") /\ doc.payload = "p2"

(* C6: the step for an entry that carries an error changes no document of  *)
(* matches, writes nothing to match_details, adds exactly one to the       *)
(* errored count, and sets no match to failed.                             *)
C6_ErrorEntryFrame ==
  [][ (EntryStep /\ Head(ientries).error # Absent) =>
        /\ matches' = matches
        /\ details' = details
        /\ totals'.errors = totals.errors + 1
        /\ totals'.successful = totals.successful
        /\ \A m \in DOMAIN matches' : matches'[m].processingStatus # "failed" ]_vars

(* An import has counted an error entry of a file. *)
C6_Witness ==
  /\ ipc = "done" /\ totals.errors > 0
  /\ \E k \in Slots : \E i \in DOMAIN resultsDir[k].entries :
        resultsDir[k].entries[i].error = "timeout"

(* C7: the importer never dies on a damaged file, and when it ends, the    *)
(* store is what importing the well-formed files alone, in the order they  *)
(* were listed, makes of the store it started from.                        *)
C7_BadFilesSkipped ==
  /\ ipc # "crashed"
  /\ (ipc = "done" /\ istart.dir = resultsDir) =>
        Store = ImportFiles([ matches |-> istart.matches, details |-> istart.details ],
                            SelectSeq(istart.order, IsJson), resultsDir)

(* An import has ended that met a damaged file before a well-formed one    *)
(* and applied a success entry of the latter.                              *)
C7_Witness ==
  /\ ipc = "done" /\ istart.dir = resultsDir /\ Len(istart.order) = 2
  /\ resultsDir[istart.order[1]].kind = "garbage"
  /\ resultsDir[istart.order[2]].kind = "json"
  /\ totals.successful > 0
  /\ matches # istart.matches

(* The match has a date parsed from its page, and the internalId made of  *)
(* that date.                                                              *)
Resolved(doc) == doc.date \in Dates /\ doc.internalId = ProperId(doc.date)

(* C24: importing a success entry without dateInfo for a match whose date  *)
(* and internalId were resolved from a parsed date leaves the stored date  *)
(* and internalId as they were.                                            *)
C24_ResolvedDateKept ==
  [][ (/\ EntryStep
       /\ IsSuccess(Head(ientries))
       /\ Head(ientries).dateInfo = Absent
       /\ Head(ientries).matchId \in DOMAIN matches
       /\ Resolved(matches[Head(ientries).matchId]))
      => LET m == Head(ientries).matchId
         IN /\ matches'[m].date = matches[m].date
            /\ matches'[m].internalId = matches[m].internalId ]_vars

(* ============ event reconciliation (utils.js, scrape-match-summary.js) == *)

(* What page.evaluate extracts for one incident: minute, player and assist *)
(* are the trimmed text or null, type is the class found.                  *)
Minutes == {"5", NullVal}
Players == {"A", NullVal}
Assists == {"B", NullVal}
RawTypes == {"goal", "ownGoal", "yellowCard"}

RawEventSet ==
  [ minute : Minutes, type : RawTypes, player : Players, assist : Assists,
    isOwnGoal : {FALSE} ]

SeqsUpTo(S, n) == UNION {[1..k -> S] : k \in 0..n}

(* "Clean up events": an ownGoal becomes a goal with isOwnGoal = true. *)
Stripped(list) ==
  [i \in DOMAIN list |->
     IF list[i].type = "ownGoal"
     THEN [list[i] EXCEPT !.type = "goal", !.isOwnGoal = TRUE]
     ELSE list[i]]

(* Array.prototype.join: null and undefined give the empty string. *)
JoinPart(x) == IF x = NullVal THEN "" ELSE x

(* const key = [e.minute, e.type, e.player].join('|') *)
KeyOf(e) == JoinPart(e.minute) \o "|" \o JoinPart(e.type) \o "|" \o JoinPart(e.player)

(* !stored.assist, e.assist: null and '' are falsy. *)
HasText(x) == x # NullVal /\ x # ""

Merge_KeepStored(stored, e) == stored

(* "merge second variant": the stored event takes the sighting's assist if *)
(* it has none, and its own-goal mark.                                     *)
Merge(stored, e) ==
  [stored EXCEPT
     !.assist = IF ~HasText(stored.assist) /\ HasText(e.assist) THEN e.assist ELSE @,
     !.isOwnGoal = IF e.isOwnGoal THEN TRUE ELSE @]

RECURSIVE DedupeInto(_, _)
(* The loop of utils.js dedupeEvents: byKey, in insertion order, and the   *)
(* sightings still to come.                                                *)
DedupeInto(byKey, rest) ==
  IF rest = << >> THEN byKey
  ELSE LET e == Head(rest)
           at == {i \in DOMAIN byKey : KeyOf(byKey[i]) = KeyOf(e)}
       IN IF at = {}
          THEN DedupeInto(Append(byKey, e), Tail(rest))
          ELSE LET i == CHOOSE j \in at : TRUE
               IN DedupeInto([byKey EXCEPT ![i] = Merge(byKey[i], e)], Tail(rest))

(* utils.js dedupeEvents(raw) *)
dedupeEvents(raw) == DedupeInto(<< >>, raw)

(* e.minute === event.minute && e.type === event.type && e.player === event.player *)
SameSighting(a, b) == a.minute = b.minute /\ a.type = b.type /\ a.player = b.player

(* scrape-match-summary.js dedupeEvents(events): the events that are the   *)
(* first of their (minute, type, player).                                  *)
summaryDedupeEvents(list) ==
  LET first(i) == CHOOSE j \in DOMAIN list :
                    /\ SameSighting(list[j], list[i])
                    /\ \A k \in 1..(j - 1) : ~SameSighting(list[k], list[i])
      kept == {i \in DOMAIN list : first(i) = i}
      RECURSIVE Pick(_)
      Pick(i) == IF i > Len(list) THEN << >>
                 ELSE IF i \in kept THEN << list[i] >> \o Pick(i + 1)
                 ELSE Pick(i + 1)
  IN Pick(1)

(* extractMatchSummary, from the extracted list on: strip, dedupe, and     *)
(* events: kept ? cleanedEvents : null, which the worker reads as          *)
(* summary.events || [].                                                   *)
ExtractEvents ==
  /\ epc = "page"
  /\ events' = summaryDedupeEvents(Stripped(rawEvents))
  /\ epc' = "done"
  /\ UNCHANGED << dbVars, peerVars, fetchVars, storeVars, batches, exportVars, exported, workerVars,
                  resultsDir, importVars, passes, rawEvents >>

(* C10: the event list the scrape step emits is utils.dedupeEvents of the  *)
(* list it extracted (ownGoal rewritten): first sighting per key, assist   *)
(* adopted from a later sighting, isOwnGoal OR-ed.                         *)
C10_EmitsReconciled ==
  epc = "done" => events = dedupeEvents(Stripped(rawEvents))

(* No script has run: no shard, no result file, every script at rest. *)
ScriptsIdle ==
  /\ batches = [k \in Slots |-> << >>]
  /\ xpc = "idle" /\ xargs = NoArgs /\ xcur = << >> /\ buf = << >>
  /\ fileIdx = 0 /\ xruns = 0 /\ xstart = << >>
  /\ exported = [m \in MatchIds |-> -1]
  /\ wpc = "idle" /\ wargs = NoWArgs /\ batch = << >> /\ wshard = << >>
  /\ results = << >> /\ wruns = 0
  /\ resultsDir = [k \in Slots |-> NoFile]
  /\ ipc = "idle" /\ jsonFiles = << >> /\ ientries = << >> /\ totals = NoTotals
  /\ iruns = 0 /\ istart = NoStart /\ passes = 0

(* ================= utils.js dedupeEvents on any input ================== *)
MaxSightings == 3

(* The sightings a caller can pass: minute and player are text taken from  *)
(* the page and may hold any character, the separator '|' included.        *)
InMinutes == {"5", "5|goal"}
InTypes == {"goal", "yellowCard"}
InPlayers == {"A", "goal|A"}
InAssists == {"B", "C", NullVal}

EventInputs ==
  [ minute : InMinutes, type : InTypes, player : InPlayers, assist : InAssists,
    isOwnGoal : BOOLEAN ]

(* A caller reconciles a list: events = dedupeEvents(raw). *)
Reconcile ==
  /\ epc = "raw"
  /\ events' = dedupeEvents(rawEvents)
  /\ epc' = "merged"
  /\ UNCHANGED << dbVars, peerVars, fetchVars, storeVars, batches, exportVars, exported, workerVars,
                  resultsDir, importVars, passes, rawEvents >>

(* The caller reconciles the reconciled list again. *)
ReconcileAgain ==
  /\ epc = "merged"
  /\ events' = dedupeEvents(events)
  /\ epc' = "remerged"
  /\ UNCHANGED << dbVars, peerVars, fetchVars, storeVars, batches, exportVars, exported, workerVars,
                  resultsDir, importVars, passes, rawEvents >>

(* The identity key of the specification: the triple itself. *)
KeyTuple(e) == << e.minute, e.type, e.player >>

(* The positions of list that are the first sighting of their key. *)
FirstSightings(list) ==
  {i \in DOMAIN list : \A j \in 1..(i - 1) : KeyTuple(list[j]) # KeyTuple(list[i])}

(* The positions of list that sight the key of position i. *)
SightingsOf(list, i) == {j \in DOMAIN list : KeyTuple(list[j]) = KeyTuple(list[i])}

(* The event the specification's merge gives for the key first sighted at  *)
(* position i.                                                             *)
MergedAt(list, i) ==
  LET withAssist == {j \in SightingsOf(list, i) : HasText(list[j].assist)}
      firstWith == CHOOSE j \in withAssist : \A k \in withAssist : j <= k
  IN [list[i] EXCEPT
        !.assist = IF ~HasText(@) /\ withAssist # {} THEN list[firstWith].assist ELSE @,
        !.isOwnGoal = \E j \in SightingsOf(list, i) : list[j].isOwnGoal]

(* No two sightings with different keys join to the same string. *)
KeysJoinApart(list) ==
  \A i, j \in DOMAIN list :
    KeyOf(list[i]) = KeyOf(list[j]) => KeyTuple(list[i]) = KeyTuple(list[j])

(* out is the specification's reconciliation of list. *)
IsReconciliationOf(out, list) ==
  /\ Len(out) = Cardinality(FirstSightings(list))
  /\ \A i \in FirstSightings(list) :
       out[Cardinality({j \in FirstSightings(list) : j <= i})] = MergedAt(list, i)

(* C11: dedupeEvents returns one event per distinct (minute, type, player) *)
(* key, in order of first occurrence, each the first sighting of its key   *)
(* with the first non-empty assist adopted when it had none and isOwnGoal  *)
(* true if any sighting had it.                                            *)
C11_OnePerKeyMerged ==
  epc = "merged" => IsReconciliationOf(events, rawEvents)

(* The same, for the lists whose distinct keys join to distinct strings. *)
ReconciledWhenKeysJoinApart ==
  (epc = "merged" /\ KeysJoinApart(rawEvents)) => IsReconciliationOf(events, rawEvents)

(* C12: dedupeEvents is idempotent: reconciling the reconciled list gives  *)
(* the reconciled list again, and a list with no repeated (minute, type,   *)
(* player) key is returned unchanged.                                      *)
C12_Idempotent ==
  /\ epc = "remerged" => events = dedupeEvents(rawEvents)
  /\ (epc = "merged" /\ FirstSightings(rawEvents) = DOMAIN rawEvents) =>
       events = rawEvents

(* The first half alone: a second reconciliation changes nothing. *)
SecondPassChangesNothing ==
  epc = "remerged" => events = dedupeEvents(rawEvents)

(* The list reconciled was two sightings of one key. *)
TwoSightingsOfOneKey ==
  /\ epc = "merged"
  /\ Len(rawEvents) = 2
  /\ KeyTuple(rawEvents[1]) = KeyTuple(rawEvents[2])

(* Both orders of the two sightings give one event, with the same assist   *)
(* and the same isOwnGoal.                                                 *)
SameMergeBothOrders ==
  LET rev == dedupeEvents(<< rawEvents[2], rawEvents[1] >>)
  IN /\ Len(events) = 1
     /\ Len(rev) = 1
     /\ rev[1].assist = events[1].assist
     /\ rev[1].isOwnGoal = events[1].isOwnGoal

(* C13 as stated: for any two sightings a, b of one key, dedupeEvents of   *)
(* [a, b] and of [b, a] each yield one event, with the same assist and the *)
(* same isOwnGoal.                                                         *)
C13_OrderIndependent ==
  TwoSightingsOfOneKey => SameMergeBothOrders

(* The two sightings carry different non-empty assists. *)
AssistsConflict ==
  /\ HasText(rawEvents[1].assist)
  /\ HasText(rawEvents[2].assist)
  /\ rawEvents[1].assist # rawEvents[2].assist

(* C13: for two sightings a, b of one key, both orders give one event with *)
(* the same isOwnGoal, and with the same assist unless a and b carry       *)
(* different non-empty assists, when each order keeps its first one.       *)
C13_OrderIndependentWhenAssistsAgree ==
  TwoSightingsOfOneKey =>
    LET rev == dedupeEvents(<< rawEvents[2], rawEvents[1] >>)
    IN /\ Len(events) = 1
       /\ Len(rev) = 1
       /\ rev[1].isOwnGoal = events[1].isOwnGoal
       /\ ~AssistsConflict => rev[1].assist = events[1].assist
       /\ AssistsConflict => /\ events[1].assist = rawEvents[1].assist
                             /\ rev[1].assist = rawEvents[2].assist

(* Two sightings of one key were reconciled, the second alone carrying an  *)
(* assist and the own-goal mark.                                           *)
C13_Witness ==
  /\ TwoSightingsOfOneKey
  /\ ~HasText(rawEvents[1].assist) /\ HasText(rawEvents[2].assist)
  /\ ~rawEvents[1].isOwnGoal /\ rawEvents[2].isOwnGoal
  /\ Len(events) = 1 /\ events[1].assist = rawEvents[2].assist /\ events[1].isOwnGoal

(* C25: any two input events that differ in minute, type or player both   *)
(* appear, as two separate events, in what dedupeEvents returns.           *)
C25_DifferingEventsKept ==
  epc = "merged" =>
    \A i, j \in DOMAIN rawEvents :
      KeyTuple(rawEvents[i]) # KeyTuple(rawEvents[j]) =>
        \E a, b \in DOMAIN events :
          /\ a # b
          /\ KeyTuple(events[a]) = KeyTuple(rawEvents[i])
          /\ KeyTuple(events[b]) = KeyTuple(rawEvents[j])

InitDedupe ==
  /\ ScriptsIdle
  /\ matches = [m \in MatchIds |-> NewMatch(m)]
  /\ details = {}
  /\ rawEvents \in SeqsUpTo(EventInputs, MaxSightings)
  /\ events = << >>
  /\ epc = "raw"
  /\ checkpoints = {} /\ saved = NoSave /\ call = NoCall /\ ret = NoRet
  /\ importers = << >> /\ exporters = << >>
  /\ fetcher = NoFetcher /\ outDir = {}

SpecDedupe == InitDedupe /\ [][Reconcile \/ ReconcileAgain]_vars

(* ================= database.js getMatchesForProcessing ================= *)
DefaultMaxAttempts == 3
MaxSelectLimit == 2

(* A numeric field the stored document does not have. *)
Missing == 0 - 1

(* Country and league names, as the list of their parts between hyphens:   *)
(* "England" is <<"England">>, "Guinea-Bissau" is <<"Guinea", "Bissau">>.  *)
England == << "England" >>
GuineaBissau == << "Guinea", "Bissau" >>
PremierLeague == << "Premier League" >>
NoName == << >>

(* The composite key `${country}-${league}` of an exclusion set, as the    *)
(* list of its parts between hyphens.                                      *)
CompositeKey(country, league) == country \o league

(* const [excludeCountry, excludeLeague] = pair.split('-') *)
SplitPair(pair) ==
  [ country |-> << pair[1] >>,
    league |-> IF Len(pair) >= 2 THEN << pair[2] >> ELSE NoName ]

(* The documents of the matches collection the calls are made on: as       *)
(* createMatch builds them (no processingAttempts, scrapeId only on the    *)
(* newer ones) or after updateMatchStatus has counted attempts.            *)
StoredMatch(m, status, attempts, country, hasScrapeId) ==
  [ matchId |-> m,
    processingStatus |-> status,
    processingAttempts |-> attempts,
    country |-> country,
    league |-> PremierLeague,
    team |-> IF m = 1 THEN "t1" ELSE "t2",
    scrapeId |-> IF hasScrapeId THEN NumMatches + 1 - m ELSE Missing,
    scrapedAt |-> (m + 1) \div 2 ]

AttemptsStored(m) ==
  IF m = 1 THEN {Missing, 0, DefaultMaxAttempts}
  ELSE IF m = 2 THEN {0, DefaultMaxAttempts} ELSE {0}

CountriesStored(m) ==
  IF m = 1 THEN {England, GuineaBissau}
  ELSE IF m % 2 = 0 THEN {England} ELSE {GuineaBissau}

StoredMatches(m) ==
  {StoredMatch(m, st, at, c, h) :
     st \in {"pending", "complete"}, at \in AttemptsStored(m),
     c \in CountriesStored(m), h \in BOOLEAN}

(* The options of a call. status is a string or an array of strings.       *)
SelectOptions ==
  [ status : {[isArray |-> FALSE, values |-> {"pending"}],
              [isArray |-> TRUE, values |-> {"pending", "complete"}]},
    country : {NoName, England},
    league : {NoName},
    team : {NullVal, "t1"},
    limit : 1..MaxSelectLimit,
    maxAttempts : {DefaultMaxAttempts, DefaultMaxAttempts + 1},
    excludePairs : {{}, {CompositeKey(England, PremierLeague)},
                    {CompositeKey(GuineaBissau, PremierLeague)}} ]

(* processingStatus: Array.isArray(status) ? { $in: status } : status *)
StatusCondition(doc, status) ==
  IF status.isArray THEN doc.processingStatus \in status.values
  ELSE \A v \in status.values : doc.processingStatus = v

(* processingAttempts: { $lt: maxAttempts }: a document without the field  *)
(* does not match.                                                         *)
AttemptsLt(doc, maxAttempts) ==
  doc.processingAttempts # Missing /\ doc.processingAttempts < maxAttempts

(* query.$nor = excludeConditions *)
Nor(doc, excludePairs) ==
  \A pair \in excludePairs :
    ~(doc.country = SplitPair(pair).country /\ doc.league = SplitPair(pair).league)

(* The query of getMatchesForProcessing. *)
SelectQuery(doc, o) ==
  /\ StatusCondition(doc, o.status)
  /\ AttemptsLt(doc, o.maxAttempts)
  /\ (o.country # NoName => doc.country = o.country)
  /\ (o.league # NoName => doc.league = o.league)
  /\ (o.team # NullVal => doc.team = o.team)
  /\ Nor(doc, o.excludePairs)

SortCriteria_AlwaysScrapedAt(sample) == "scrapedAt"

(* sampleMatch && sampleMatch.scrapeId !== undefined ? scrapeId : scrapedAt *)
SortCriteria(sample) ==
  IF sample.found /\ sample.doc.scrapeId # Missing THEN "scrapeId" ELSE "scrapedAt"

(* The value a document sorts by; a missing value sorts first. *)
SortValue(doc, criteria) == IF criteria = "scrapeId" THEN doc.scrapeId ELSE doc.scrapedAt

(* .sort(sortCriteria): the arrangements of S ascending in the sort value; *)
(* documents with equal values come in any order.                          *)
Sorted(S, criteria) ==
  {s \in [1..Cardinality(S) -> S] :
     /\ \A i, j \in DOMAIN s : i # j => s[i] # s[j]
     /\ \A i, j \in DOMAIN s : i < j => SortValue(s[i], criteria) <= SortValue(s[j], criteria)}

(* .limit(limit) *)
Limited(s, limit) == SubSeq(s, 1, IF Len(s) < limit THEN Len(s) ELSE limit)

(* findOne({}): some document of the collection, or none. *)
Samples(coll) ==
  IF DOMAIN coll = {} THEN {[found |-> FALSE, doc |-> << >>]}
  ELSE {[found |-> TRUE, doc |-> coll[m]] : m \in DOMAIN coll}

(* getMatchesForProcessing(options) *)
GetMatchesForProcessing ==
  /\ call = NoCall
  /\ \E o \in SelectOptions, sample \in Samples(matches) :
       \E s \in Sorted({matches[m] : m \in {x \in DOMAIN matches : SelectQuery(matches[x], o)}},
                       SortCriteria(sample)) :
         /\ call' = [ op |-> "getMatchesForProcessing", options |-> o, sample |-> sample ]
         /\ ret' = [ threw |-> FALSE, value |-> Limited(s, o.limit) ]
  /\ UNCHANGED << peerVars, fetchVars, storeVars, checkpoints, saved, batches, exportVars, exported, workerVars,
                  resultsDir, importVars, passes, eventVars >>

InitSelect ==
  /\ ScriptsIdle
  /\ matches \in {f \in [MatchIds -> UNION {StoredMatches(m) : m \in MatchIds}] :
                    \A m \in MatchIds : f[m] \in StoredMatches(m)}
  /\ details = {}
  /\ rawEvents = << >> /\ events = << >> /\ epc = "done"
  /\ checkpoints = {} /\ saved = NoSave /\ call = NoCall /\ ret = NoRet
  /\ importers = << >> /\ exporters = << >>
  /\ fetcher = NoFetcher /\ outDir = {}

SpecSelect == InitSelect /\ [][GetMatchesForProcessing]_vars

(* A call of getMatchesForProcessing has returned. *)
Selected == call.op = "getMatchesForProcessing" /\ ~ret.threw

(* The attempts a match has had: the counter starts at 0, which is what a  *)
(* document without the field stands for.                                  *)
AttemptsOf(doc) == IF doc.processingAttempts = Missing THEN 0 ELSE doc.processingAttempts

(* The filter of the specification, the exclusion set aside. *)
Wanted(doc, o) ==
  /\ doc.processingStatus \in o.status.values
  /\ AttemptsOf(doc) < o.maxAttempts
  /\ (o.country # NoName => doc.country = o.country)
  /\ (o.league # NoName => doc.league = o.league)
  /\ (o.team # NullVal => doc.team = o.team)

(* The (country, league) pair of the document has its key in the set. *)
Excluded(doc, o) == CompositeKey(doc.country, doc.league) \in o.excludePairs

(* r is the first limit documents of S, in an order the call's sort allows. *)
FirstOf(r, S) ==
  \E s \in Sorted(S, SortCriteria(call.sample)) : r = Limited(s, call.options.limit)

(* C14: the call returns only matches of the given status(es), with        *)
(* processingAttempts below maxAttempts and the supplied country, league   *)
(* and team; at most limit of them, the first limit matching records in    *)
(* the sort order (for a call without exclusion set); never a match whose  *)
(* attempts have reached maxAttempts.                                      *)
C14_SelectsFirstMatching ==
  Selected =>
    /\ \A i \in DOMAIN ret.value : Wanted(ret.value[i], call.options)
    /\ Len(ret.value) <= call.options.limit
    /\ call.options.excludePairs = {} =>
         FirstOf(ret.value, {matches[m] : m \in {x \in DOMAIN matches :
                                                   Wanted(matches[x], call.options)}})

(* The same, on a collection whose documents all carry processingAttempts. *)
SelectsFirstMatchingWhenCounted ==
  (Selected /\ \A m \in DOMAIN matches : matches[m].processingAttempts # Missing) =>
    /\ \A i \in DOMAIN ret.value : Wanted(ret.value[i], call.options)
    /\ Len(ret.value) <= call.options.limit
    /\ call.options.excludePairs = {} =>
         FirstOf(ret.value, {matches[m] : m \in {x \in DOMAIN matches :
                                                   Wanted(matches[x], call.options)}})

(* C15: with an exclusion set of composite keys, the call returns no match *)
(* whose (country, league) key is in the set, and omits no other match     *)
(* that passes the rest of the query.                                      *)
C15_ExcludedPairsOmitted ==
  Selected =>
    /\ \A i \in DOMAIN ret.value : ~Excluded(ret.value[i], call.options)
    /\ FirstOf(ret.value,
               {matches[m] : m \in {x \in DOMAIN matches :
                    /\ SelectQuery(matches[x], [call.options EXCEPT !.excludePairs = {}])
                    /\ ~Excluded(matches[x], call.options)}})

(* The same, for exclusion sets whose country names hold no hyphen. *)
ExcludedPairsOmittedWhenUnhyphenated ==
  (Selected /\ \A pair \in call.options.excludePairs : Len(pair) = 2) =>
    /\ \A i \in DOMAIN ret.value : ~Excluded(ret.value[i], call.options)
    /\ FirstOf(ret.value,
               {matches[m] : m \in {x \in DOMAIN matches :
                    /\ SelectQuery(matches[x], [call.options EXCEPT !.excludePairs = {}])
                    /\ ~Excluded(matches[x], call.options)}})

MaxCounted == 2
MaxBatch == 3

(* The collections the calls are made on: any set of the matches, each     *)
(* pending or queued, with or without a processingAttempts field.          *)
CollectionDocs(m) ==
  {StoredMatch(m, st, at, England, TRUE) :
     st \in {"pending", "queued"}, at \in {Missing, 0}}

Collections ==
  UNION {{f \in [D -> UNION {CollectionDocs(m) : m \in D}] :
            \A m \in D : f[m] \in CollectionDocs(m)} :
         D \in SUBSET MatchIds}

UpdateDoc_SetOnly(doc, status) == [doc EXCEPT !.processingStatus = status]

(* { $set: { processingStatus: status }, $inc: { processingAttempts: 1 } } *)
(* applied to a document: $inc on a missing field sets it to the amount.   *)
UpdateDoc(doc, status) ==
  [doc EXCEPT !.processingStatus = status,
              !.processingAttempts = IF @ = Missing THEN 1 ELSE @ + 1]

(* updateMatchStatus(matchId, status): updateOne without upsert, and       *)
(* return res.modifiedCount > 0.                                           *)
UpdateMatchStatus ==
  /\ \E id \in MatchIds, status \in {"queued", "complete"} :
       /\ id \in DOMAIN matches => AttemptsOf(matches[id]) < MaxCounted
       /\ matches' = IF id \in DOMAIN matches
                     THEN [matches EXCEPT ![id] = UpdateDoc(@, status)]
                     ELSE matches
       /\ call' = [ op |-> "updateMatchStatus", matchId |-> id, status |-> status ]
       /\ ret' = [ threw |-> FALSE, value |-> id \in DOMAIN matches ]
  /\ UNCHANGED << peerVars, fetchVars, details, checkpoints, saved, batches, exportVars, exported, workerVars,
                  resultsDir, importVars, passes, eventVars >>

(* C17: updateMatchStatus on a known matchId sets that match's status,     *)
(* adds exactly 1 to its processingAttempts, changes no other match and    *)
(* returns true; on an unknown matchId it returns false and changes        *)
(* nothing, creating no record.                                            *)
C17_AdvanceStatus ==
  [][ call'.op = "updateMatchStatus" =>
        LET id == call'.matchId
        IN IF id \in DOMAIN matches
           THEN /\ DOMAIN matches' = DOMAIN matches
                /\ matches'[id].processingStatus = call'.status
                /\ AttemptsOf(matches'[id]) = AttemptsOf(matches[id]) + 1
                /\ \A m \in DOMAIN matches \ {id} : matches'[m] = matches[m]
                /\ ret'.value = TRUE
                /\ details' = details
           ELSE /\ matches' = matches
                /\ details' = details
                /\ ret'.value = FALSE ]_vars

(* A call on a known match has returned true and left it complete with    *)
(* its second attempt counted, beside a match no call has touched.         *)
C17_Witness ==
  /\ call.op = "updateMatchStatus"
  /\ ret.value = TRUE
  /\ matches[call.matchId].processingStatus = "complete"
  /\ matches[call.matchId].processingAttempts = 2
  /\ \E m \in DOMAIN matches : matches[m].processingAttempts = Missing

InitStatus ==
  /\ ScriptsIdle
  /\ matches \in Collections
  /\ details = {}
  /\ rawEvents = << >> /\ events = << >> /\ epc = "done"
  /\ checkpoints = {} /\ saved = NoSave /\ call = NoCall /\ ret = NoRet
  /\ importers = << >> /\ exporters = << >>
  /\ fetcher = NoFetcher /\ outDir = {}

SpecStatus == InitStatus /\ [][UpdateMatchStatus]_vars

(* The records a caller passes to saveMatches: fresh matches, as           *)
(* createMatch builds them.                                                *)
FreshMatch(m) == StoredMatch(m, "pending", Missing, England, TRUE)

(* insertMany(docs, { ordered: false }) under the unique index on matchId: *)
(* the positions of docs that are inserted, every document being tried.    *)
InsertedAt(coll, docs) ==
  {i \in DOMAIN docs :
     /\ docs[i].matchId \notin DOMAIN coll
     /\ \A j \in 1..(i - 1) : docs[j].matchId # docs[i].matchId}

(* The collection after the documents at the positions K were inserted. *)
WithInserted(coll, docs, K) ==
  [m \in DOMAIN coll \cup {docs[i].matchId : i \in K} |->
     IF m \in DOMAIN coll THEN coll[m]
     ELSE docs[CHOOSE i \in K : docs[i].matchId = m]]

(* The store fails for another reason than a duplicate key (err.code is    *)
(* not 11000), after the documents at positions K went in: the catch       *)
(* rethrows.                                                               *)
SaveMatchesFails(docs, K) == [ threw |-> TRUE, value |-> "error" ]

SaveMatchesReturns_Requested(coll, docs) ==
  [ threw |-> FALSE, value |-> Len(docs) ]

(* What saveMatches returns when the store works: 0 for an empty array,    *)
(* res.insertedCount, or on a duplicate-key error (code 11000) the         *)
(* nInserted of the error's result.                                        *)
SaveMatchesReturns(coll, docs) ==
  [ threw |-> FALSE, value |-> Cardinality(InsertedAt(coll, docs)) ]

(* saveMatches(matches) *)
SaveMatches ==
  /\ \E docs \in SeqsUpTo({FreshMatch(m) : m \in MatchIds}, MaxBatch) :
       \/ /\ matches' = WithInserted(matches, docs, InsertedAt(matches, docs))
          /\ call' = [ op |-> "saveMatches", docs |-> docs, failure |-> "none" ]
          /\ ret' = SaveMatchesReturns(matches, docs)
       \/ /\ docs # << >>
          /\ \E K \in SUBSET InsertedAt(matches, docs) :
               /\ matches' = WithInserted(matches, docs, K)
               /\ call' = [ op |-> "saveMatches", docs |-> docs, failure |-> "store" ]
               /\ ret' = SaveMatchesFails(docs, K)
  /\ UNCHANGED << peerVars, fetchVars, details, checkpoints, saved, batches, exportVars, exported, workerVars,
                  resultsDir, importVars, passes, eventVars >>

(* C18: saveMatches on records some of which have a matchId already taken  *)
(* does not throw, inserts every record whose matchId was free, leaves the *)
(* stored records unchanged and returns the number inserted; a store       *)
(* failure that is no duplicate key is thrown to the caller.               *)
C18_InsertBatch ==
  [][ call'.op = "saveMatches" =>
        /\ \A m \in DOMAIN matches : m \in DOMAIN matches' /\ matches'[m] = matches[m]
        /\ call'.failure = "none" =>
             /\ ~ret'.threw
             /\ DOMAIN matches' = DOMAIN matches \cup {call'.docs[i].matchId : i \in DOMAIN call'.docs}
             /\ \A i \in DOMAIN call'.docs :
                  call'.docs[i].matchId \notin DOMAIN matches =>
                    matches'[call'.docs[i].matchId] = call'.docs[i]
             /\ ret'.value = Cardinality(DOMAIN matches' \ DOMAIN matches)
        /\ call'.failure # "none" => ret'.threw ]_vars

(* A call with three records, two of them for one matchId already stored,  *)
(* has returned 1.                                                         *)
C18_Witness ==
  /\ call.op = "saveMatches"
  /\ call.failure = "none"
  /\ Len(call.docs) = 3
  /\ call.docs[1].matchId = call.docs[2].matchId
  /\ matches[call.docs[1].matchId].processingStatus = "queued"
  /\ call.docs[3].matchId # call.docs[1].matchId
  /\ ret.value = 1

InitInsert ==
  /\ ScriptsIdle
  /\ matches \in Collections
  /\ details = {}
  /\ rawEvents = << >> /\ events = << >> /\ epc = "done"
  /\ checkpoints = {} /\ saved = NoSave /\ call = NoCall /\ ret = NoRet
  /\ importers = << >> /\ exporters = << >>
  /\ fetcher = NoFetcher /\ outDir = {}

SpecInsert == InitInsert /\ [][SaveMatches]_vars

(* ============ database.js saveCheckpoint and getCheckpoint ============= *)
(* The state a caller passes to saveCheckpoint: any of the fields of a     *)
(* checkpoint, Absent for a field the object does not have.                *)
CheckpointData ==
  [ country : {"England", "Spain", Absent},
    index : {"i1", "i2", Absent},
    matchesScraped : {"n1", Absent} ]

CheckpointFields == {"country", "index", "matchesScraped"}

(* { $set: { ...data } } on the stored document: the fields of data are    *)
(* written, the others stay.                                               *)
SetCheckpoint(doc, data) ==
  [f \in DOMAIN doc |->
     IF f \in CheckpointFields /\ data[f] # Absent THEN data[f] ELSE doc[f]]

(* saveCheckpoint(data): updateOne({ _id: 'scraper-state' }, $set, upsert) *)
SaveCheckpoint ==
  /\ \E data \in CheckpointData :
       /\ checkpoints' =
            IF \E d \in checkpoints : d._id = "scraper-state"
            THEN {IF d._id = "scraper-state" THEN SetCheckpoint(d, data) ELSE d :
                    d \in checkpoints}
            ELSE checkpoints \cup {[ _id |-> "scraper-state" ] @@ data}
       /\ saved' = data
       /\ call' = [ op |-> "saveCheckpoint", data |-> data ]
       /\ ret' = [ threw |-> FALSE, value |-> TRUE ]
  /\ UNCHANGED << peerVars, fetchVars, storeVars, batches, exportVars, exported, workerVars,
                  resultsDir, importVars, passes, eventVars >>

(* getCheckpoint(): findOne({ _id: 'scraper-state' }), null if none. *)
GetCheckpoint ==
  /\ call' = [ op |-> "getCheckpoint" ]
  /\ ret' = [ threw |-> FALSE,
              value |-> {d \in checkpoints : d._id = "scraper-state"} ]
  /\ UNCHANGED << peerVars, fetchVars, storeVars, checkpoints, saved, batches, exportVars, exported,
                  workerVars, resultsDir, importVars, passes, eventVars >>

(* The call that has just returned is a getCheckpoint. *)
Loaded == call.op = "getCheckpoint"

(* There is never more than one checkpoint record; load before any save    *)
(* finds none, and after a save finds one record.                          *)
CheckpointIsSingleton ==
  /\ Cardinality(checkpoints) <= 1
  /\ Loaded => Cardinality(ret.value) = IF saved = NoSave THEN 0 ELSE 1

(* C19: there is never more than one checkpoint record; load before any    *)
(* save returns not-found; load after saves returns exactly the state      *)
(* passed to the last save, with no field of an earlier save left over.    *)
C19_LoadReturnsLastSave ==
  /\ CheckpointIsSingleton
  /\ (Loaded /\ saved # NoSave) =>
       \A d \in ret.value : \A f \in CheckpointFields : d[f] = saved[f]

(* Load returns, for every field the last save passed, the value passed. *)
LoadReturnsLastSavedFields ==
  /\ CheckpointIsSingleton
  /\ (Loaded /\ saved # NoSave) =>
       \A d \in ret.value : \A f \in CheckpointFields :
         saved[f] # Absent => d[f] = saved[f]

InitCheckpoint ==
  /\ ScriptsIdle
  /\ matches = [m \in MatchIds |-> NewMatch(m)]
  /\ details = {}
  /\ rawEvents = << >> /\ events = << >> /\ epc = "done"
  /\ checkpoints = {} /\ saved = NoSave /\ call = NoCall /\ ret = NoRet
  /\ importers = << >> /\ exporters = << >>
  /\ fetcher = NoFetcher /\ outDir = {}

SpecCheckpoint == InitCheckpoint /\ [][SaveCheckpoint \/ GetCheckpoint]_vars

(* ========================= the pipeline ================================ *)
Init ==
  /\ matches = [m \in MatchIds |-> NewMatch(m)]
  /\ details = {}
  /\ batches = [k \in Slots |-> << >>]
  /\ xpc = "idle"
  /\ xargs = NoArgs
  /\ xcur = << >>
  /\ buf = << >>
  /\ fileIdx = 0
  /\ xruns = 0
  /\ xstart = << >>
  /\ exported = [m \in MatchIds |-> -1]
  /\ wpc = "idle"
  /\ wargs = NoWArgs
  /\ batch = << >>
  /\ wshard = << >>
  /\ results = << >>
  /\ wruns = 0
  /\ resultsDir = [k \in Slots |-> NoFile]
  /\ ipc = "idle"
  /\ jsonFiles = << >>
  /\ ientries = << >>
  /\ totals = NoTotals
  /\ iruns = 0
  /\ istart = NoStart
  /\ passes = 0
  /\ rawEvents = << >>
  /\ events = << >>
  /\ epc = "done"
  /\ checkpoints = {} /\ saved = NoSave /\ call = NoCall /\ ret = NoRet
  /\ importers = << >> /\ exporters = << >>
  /\ fetcher = NoFetcher /\ outDir = {}

(* The scripts are run one at a time: the shards are committed before the  *)
(* workflow that scrapes them is dispatched, and the result files are      *)
(* fetched from a finished workflow run before the importer is started.    *)
ExportIdle == xpc \in {"idle", "done", "crashed"}
WorkerIdle == wpc \in {"idle", "done"}
ImportIdle == ipc \in {"idle", "done"}

Next ==
  \/ WorkerIdle /\ ImportIdle /\ ExportStep
  \/ ExportIdle /\ ImportIdle /\ WorkerStep
  \/ ExportIdle /\ WorkerIdle /\ ImportStep
  \/ ExportIdle /\ WorkerIdle /\ ImportIdle /\ DamageFile

Spec == Init /\ [][Next]_vars

(* C4: after an export and the import of worker results for its shards, a  *)
(* match whose result carried an error has the status it had before the    *)
(* import and one more processingAttempts than before the export, and a    *)
(* match whose result was a success is complete.                           *)
C4_ErrorCountsOneAttempt ==
  (ipc = "done" /\ istart.dir = resultsDir) =>
    \A k \in Range(istart.order) : \A i \in DOMAIN resultsDir[k].entries :
      LET e == resultsDir[k].entries[i]
          m == e.matchId
      IN /\ (e.error # Absent /\ exported[m] >= 0) =>
              /\ matches[m].processingStatus = istart.matches[m].processingStatus
              /\ matches[m].processingAttempts = exported[m] + 1
         /\ IsSuccess(e) => matches[m].processingStatus = "complete"

(* ---------------- the partitioner on any store ------------------------ *)
(* The statuses the pipeline itself leaves in the matches collection. *)
StoredStatuses == {"pending", "queued", "complete"}

InitExport ==
  /\ matches \in {[m \in MatchIds |-> [NewMatch(m) EXCEPT !.processingStatus = st[m]]] :
                    st \in [MatchIds -> StoredStatuses]}
  /\ details = {}
  /\ batches = [k \in Slots |-> << >>]
  /\ xpc = "idle" /\ xargs = NoArgs /\ xcur = << >> /\ buf = << >>
  /\ fileIdx = 0 /\ xruns = 0 /\ xstart = << >>
  /\ exported = [m \in MatchIds |-> -1]
  /\ wpc = "idle" /\ wargs = NoWArgs /\ batch = << >> /\ wshard = << >>
  /\ results = << >> /\ wruns = 0
  /\ resultsDir = [k \in Slots |-> NoFile]
  /\ ipc = "idle" /\ jsonFiles = << >> /\ ientries = << >> /\ totals = NoTotals
  /\ iruns = 0 /\ istart = NoStart /\ passes = 0
  /\ rawEvents = << >> /\ events = << >> /\ epc = "done"
  /\ checkpoints = {} /\ saved = NoSave /\ call = NoCall /\ ret = NoRet
  /\ importers = << >> /\ exporters = << >>
  /\ fetcher = NoFetcher /\ outDir = {}

SpecExport == InitExport /\ [][ExportStep]_vars

(* ---------------- the worker on any shard ------------------------------ *)
(* The shard files a partitioner run can write: the projected documents of *)
(* a non-empty set of matches, ascending in scrapeId.                      *)
ShardsOver(ids) ==
  {Cursor([m \in S |-> NewMatch(m)], NoArgs) : S \in (SUBSET ids) \ {{}}}

InitWorker ==
  /\ matches = MarkQueued([m \in MatchIds |-> NewMatch(m)], MatchIds)
  /\ details = {}
  /\ batches \in {[k \in Slots |-> IF k = 1 THEN sh ELSE << >>] :
                    sh \in ShardsOver(MatchIds)}
  /\ xpc = "idle" /\ xargs = NoArgs /\ xcur = << >> /\ buf = << >>
  /\ fileIdx = 0 /\ xruns = 0 /\ xstart = << >>
  /\ exported = [m \in MatchIds |-> 0]
  /\ wpc = "idle" /\ wargs = NoWArgs /\ batch = << >> /\ wshard = << >>
  /\ results = << >> /\ wruns = 0
  /\ resultsDir = [k \in Slots |-> NoFile]
  /\ ipc = "idle" /\ jsonFiles = << >> /\ ientries = << >> /\ totals = NoTotals
  /\ iruns = 0 /\ istart = NoStart /\ passes = 0
  /\ rawEvents = << >> /\ events = << >> /\ epc = "done"
  /\ checkpoints = {} /\ saved = NoSave /\ call = NoCall /\ ret = NoRet
  /\ importers = << >> /\ exporters = << >>
  /\ fetcher = NoFetcher /\ outDir = {}

SpecWorker == InitWorker /\ [][WorkerStep]_vars

(* The worker, which can be killed while it runs. *)
SpecWorkerKilled == InitWorker /\ [][WorkerStep \/ WorkerKill]_vars

(* C27: a worker killed before it has finished the last match of its batch *)
(* has written no output file: from its start to the kill no step of it    *)
(* changes the results directory or the store; and every match of the      *)
(* shard it read is still queued.                                          *)
C27_KilledWritesNothing ==
  /\ [](wpc = "killed" =>
          \A m \in ShardIds(wshard) : matches[m].processingStatus = "queued")
  /\ [][ wpc' \in {"loop", "killed"} =>
            /\ resultsDir' = resultsDir
            /\ matches' = matches
            /\ details' = details ]_vars

(* A worker was killed with the results of one match or more in memory and *)
(* a match still to scrape.                                                *)
C27_Witness ==
  wpc = "killed" /\ results # << >> /\ Len(results) < Len(wshard)

(* The worker, once started, runs on until it has written its output: each *)
(* scrape step returns or throws within its timeouts.                      *)
SpecWorkerFair ==
  SpecWorker /\ WF_vars(WorkerScrapeOk \/ WorkerScrapeFails \/ WorkerWrite)

(* ---------------- the importer on any results directory ---------------- *)
(* The entries either worker script can emit for a shard entry. *)
EntriesFor(e) ==
  {OkEntry(v, e, sm) : v \in Variants, sm \in Summaries}
    \cup {ErrEntry(e, msg) : msg \in ErrMsgs}

(* The result files a worker can emit for a shard. *)
ResultFilesFor(shard) ==
  {r \in [DOMAIN shard -> UNION {EntriesFor(shard[i]) : i \in DOMAIN shard}] :
     \A i \in DOMAIN shard : r[i] \in EntriesFor(shard[i])}

(* What a file of the results directory can hold: a worker's result file   *)
(* (here for a shard of the matches 1..MaxEntries), bytes JSON.parse       *)
(* rejects, or JSON that is no array.                                      *)
FileContents ==
  {JsonFile(r) : r \in UNION {ResultFilesFor(sh) : sh \in ShardsOver(1..MaxEntries)}}
    \cup {[ kind |-> k, entries |-> << >> ] : k \in {"garbage", "object"}}

InitImport ==
  /\ matches = MarkQueued([m \in MatchIds |-> NewMatch(m)], MatchIds)
  /\ details = {}
  /\ batches = [k \in Slots |-> << >>]
  /\ xpc = "idle" /\ xargs = NoArgs /\ xcur = << >> /\ buf = << >>
  /\ fileIdx = 0 /\ xruns = 0 /\ xstart = << >>
  /\ exported = [m \in MatchIds |-> 0]
  /\ wpc = "idle" /\ wargs = NoWArgs /\ batch = << >> /\ wshard = << >>
  /\ results = << >> /\ wruns = 0
  /\ resultsDir \in {[k \in Slots |-> IF k <= MaxFiles THEN f[k] ELSE NoFile] :
                       f \in [1..MaxFiles -> FileContents]}
  /\ ipc = "idle" /\ jsonFiles = << >> /\ ientries = << >> /\ totals = NoTotals
  /\ iruns = 0 /\ istart = NoStart /\ passes = 0
  /\ rawEvents = << >> /\ events = << >> /\ epc = "done"
  /\ checkpoints = {} /\ saved = NoSave /\ call = NoCall /\ ret = NoRet
  /\ importers = << >> /\ exporters = << >>
  /\ fetcher = NoFetcher /\ outDir = {}

SpecImport == InitImport /\ [][ImportStep]_vars

(* ---------------- a partitioner run after an import -------------------- *)
(* The pipeline after one partitioner run and one worker run: a shard in   *)
(* batch-001.json, its matches queued, and the worker's result file (or a  *)
(* damaged one) in the results directory.                                  *)
InitRetry ==
  /\ \E sh \in ShardsOver(1..MaxEntries) :
       /\ matches = MarkQueued([m \in MatchIds |-> NewMatch(m)], ShardIds(sh))
       /\ batches = [k \in Slots |-> IF k = 1 THEN sh ELSE << >>]
       /\ exported = [m \in MatchIds |-> IF m \in ShardIds(sh) THEN 0 ELSE -1]
       /\ \E f \in {JsonFile(r) : r \in ResultFilesFor(sh)}
                    \cup {[ kind |-> k, entries |-> << >> ] : k \in {"garbage", "object"}} :
            resultsDir = [k \in Slots |-> IF k = 1 THEN f ELSE NoFile]
  /\ details = {}
  /\ xpc = "idle" /\ xargs = NoArgs /\ xcur = << >> /\ buf = << >>
  /\ fileIdx = 0 /\ xruns = 0 /\ xstart = << >>
  /\ wpc = "idle" /\ wargs = NoWArgs /\ batch = << >> /\ wshard = << >>
  /\ results = << >> /\ wruns = 0
  /\ ipc = "idle" /\ jsonFiles = << >> /\ ientries = << >> /\ totals = NoTotals
  /\ iruns = 0 /\ istart = NoStart /\ passes = 0
  /\ rawEvents = << >> /\ events = << >> /\ epc = "done"
  /\ checkpoints = {} /\ saved = NoSave /\ call = NoCall /\ ret = NoRet
  /\ importers = << >> /\ exporters = << >>
  /\ fetcher = NoFetcher /\ outDir = {}

NextRetry ==
  \/ ExportIdle /\ ImportStep
  \/ ImportIdle /\ ExportStep

SpecRetry == InitRetry /\ [][NextRetry]_vars

(* The importer has run to its end over a result file holding an error     *)
(* entry for match m.                                                      *)
ErrorImported(m) ==
  /\ ipc = "done"
  /\ \E k \in Range(istart.order) : \E i \in DOMAIN resultsDir[k].entries :
       /\ resultsDir[k].entries[i].matchId = m
       /\ Truthy(resultsDir[k].entries[i].error)

(* C20: a match whose error result has been imported, with                 *)
(* processingAttempts below maxAttempts, is in a shard of a partitioner    *)
(* run made afterwards (one whose --start and exclusion lists let it in).  *)
C20_ErroredMatchRetried ==
  [][ (xpc = "cursor" /\ xpc' = "done") =>
        \A m \in DOMAIN matches :
          ( /\ ErrorImported(m)
            /\ matches[m].processingAttempts < DefaultMaxAttempts
            /\ matches[m].scrapeId >= xargs.start
            /\ matches[m].country \notin xargs.exCountry
            /\ matches[m].league \notin xargs.exLeague )
          => \E k \in 1..fileIdx : m \in ShardIds(batches'[k]) ]_vars

(* ------- partitioner runs, imports and updateMatchStatus calls --------- *)
(* A caller of database.js advances a match while the scripts run; one     *)
(* call in a behaviour.                                                    *)
NextLifecycle ==
  \/ NextRetry
  \/ call = NoCall /\ UpdateMatchStatus

SpecLifecycle == InitRetry /\ [][NextLifecycle]_vars

(* The place of a status in the lifecycle order. *)
StatusRank(status) ==
  CASE status = "pending" -> 0
    [] status = "queued" -> 1
    [] status = "summary_pending" -> 2
    [] status = "summary_complete" -> 3
    [] status = "h2h_pending" -> 4
    [] status = "complete" -> 5
    [] OTHER -> 6

(* C21: no step of a partitioner run, an import or an updateMatchStatus    *)
(* call moves a match's processingStatus backwards in the order pending,   *)
(* queued, summary_pending, summary_complete, h2h_pending, complete,       *)
(* unless it requeues a failed match; a complete match never becomes       *)
(* queued or pending again.                                                *)
C21_StatusOnlyForward ==
  [][ \A m \in DOMAIN matches :
        /\ matches[m].processingStatus # "failed" =>
             StatusRank(matches'[m].processingStatus)
               >= StatusRank(matches[m].processingStatus)
        /\ matches[m].processingStatus = "complete" =>
             matches'[m].processingStatus \notin {"queued", "pending"} ]_vars

(* Every step moves every status forward or leaves it: so it is when the  *)
(* partitioner and the importer run one after the other and no caller of   *)
(* updateMatchStatus comes in between (SpecRetry).                         *)
ScriptsMoveStatusForward ==
  [][ \A m \in DOMAIN matches :
        StatusRank(matches'[m].processingStatus)
          >= StatusRank(matches[m].processingStatus) ]_vars

(* ---------------- a partitioner run after a partitioner run ------------ *)
(* An earlier run has written one shard to batch-001.json and queued its   *)
(* matches; no worker has consumed it yet; the other matches are pending.  *)
InitRerun ==
  /\ \E sh \in ShardsOver(MatchIds) :
       /\ matches = MarkQueued([m \in MatchIds |-> NewMatch(m)], ShardIds(sh))
       /\ batches = [k \in Slots |-> IF k = 1 THEN sh ELSE << >>]
       /\ exported = [m \in MatchIds |-> IF m \in ShardIds(sh) THEN 0 ELSE -1]
  /\ details = {}
  /\ xpc = "idle" /\ xargs = NoArgs /\ xcur = << >> /\ buf = << >>
  /\ fileIdx = 0 /\ xruns = 0 /\ xstart = << >>
  /\ wpc = "idle" /\ wargs = NoWArgs /\ batch = << >> /\ wshard = << >>
  /\ results = << >> /\ wruns = 0
  /\ resultsDir = [k \in Slots |-> NoFile]
  /\ ipc = "idle" /\ jsonFiles = << >> /\ ientries = << >> /\ totals = NoTotals
  /\ iruns = 0 /\ istart = NoStart /\ passes = 0
  /\ rawEvents = << >> /\ events = << >> /\ epc = "done"
  /\ checkpoints = {} /\ saved = NoSave /\ call = NoCall /\ ret = NoRet
  /\ importers = << >> /\ exporters = << >>
  /\ fetcher = NoFetcher /\ outDir = {}

SpecRerun == InitRerun /\ [][ExportStep]_vars

(* C26: a shard file, once written, is never changed: no step of a later   *)
(* partitioner run writes to a slot of the batches directory that holds a  *)
(* shard file.                                                             *)
C26_ShardFilesNeverChanged ==
  [][ \A k \in Slots : batches[k] # << >> => batches'[k] = batches[k] ]_vars

(* ---------------- two importers at the same time ----------------------- *)
(* Two importer processes on one store, each inside the loop over the      *)
(* entries of its own result file (import-artifacts.js 48-87); the two     *)
(* updateOne calls of an entry are separate steps, so that those of the    *)
(* two processes interleave.                                               *)
Importers == 1..2

(* One of the two updateOne calls of an entry. *)
ApplyUpdate_AllQueued(store, e, which) ==
  IF which = "match"
  THEN [ matches |-> [m \in DOMAIN store.matches |->
                        IF store.matches[m].processingStatus = "queued"
                        THEN [store.matches[m] EXCEPT !.processingStatus = "complete",
                                                      !.date = DateOf(e),
                                                      !.internalId = InternalIdOf(e)]
                        ELSE store.matches[m]],
         details |-> store.details ]
  ELSE [ matches |-> store.matches, details |-> UpsertDetails(store.details, e) ]

(* await db.collection('matches').updateOne(..) (59-69), then              *)
(* await db.collection('match_details').updateOne(..) (72-76).             *)
ApplyUpdate(store, e, which) ==
  IF which = "match"
  THEN [ matches |-> UpdateMatch(store.matches, e), details |-> store.details ]
  ELSE [ matches |-> store.matches, details |-> UpsertDetails(store.details, e) ]

(* Process p takes its next entry: skipped when it carries an error or the *)
(* $set throws, else the matches collection is updated.                    *)
ImporterUpdateMatch(p) ==
  /\ importers[p].pc = "entries"
  /\ importers[p].entries # << >>
  /\ LET e == Head(importers[p].entries)
     IN IF Truthy(e.error) \/ SetThrows(e)
        THEN /\ importers' = [importers EXCEPT ![p].entries = Tail(@)]
             /\ UNCHANGED storeVars
        ELSE /\ matches' = ApplyUpdate(Store, e, "match").matches
             /\ importers' = [importers EXCEPT ![p].pc = "upsert"]
             /\ UNCHANGED details
  /\ UNCHANGED << dbVars, fetchVars, exporters, batches, exportVars, exported, workerVars,
                  resultsDir, importVars, passes, eventVars >>

(* Process p upserts the details of the entry whose match it has updated.  *)
ImporterUpsertDetails(p) ==
  /\ importers[p].pc = "upsert"
  /\ details' = ApplyUpdate(Store, Head(importers[p].entries), "details").details
  /\ importers' = [importers EXCEPT ![p].pc = "entries", ![p].entries = Tail(@)]
  /\ UNCHANGED << dbVars, fetchVars, exporters, matches, batches, exportVars, exported, workerVars,
                  resultsDir, importVars, passes, eventVars >>

(* Process p has gone through its file. *)
ImporterDone(p) ==
  /\ importers[p].pc = "entries"
  /\ importers[p].entries = << >>
  /\ importers' = [importers EXCEPT ![p].pc = "done"]
  /\ UNCHANGED << dbVars, fetchVars, exporters, storeVars, batches, exportVars, exported,
                  workerVars, resultsDir, importVars, passes, eventVars >>

ImportersStep ==
  \E p \in Importers :
    \/ ImporterUpdateMatch(p)
    \/ ImporterUpsertDetails(p)
    \/ ImporterDone(p)

(* The result file of an earlier worker run over every match, each scrape  *)
(* having succeeded.                                                       *)
EarlierResults ==
  LET all == Cursor([m \in MatchIds |-> NewMatch(m)], NoArgs)
  IN [i \in DOMAIN all |->
        OkEntry("batch", all[i], [ dateInfo |-> "d1", payload |-> "p2" ])]

(* Two shards over different matches: the first of up to MaxEntries        *)
(* entries, the second of one.                                             *)
DisjointShards ==
  {pair \in ShardsOver(MatchIds) \X ShardsOver(MatchIds) :
     /\ Len(pair[1]) <= MaxEntries
     /\ Len(pair[2]) = 1
     /\ ShardIds(pair[1]) \cap ShardIds(pair[2]) = {}}

(* Result files 1 and 2 are about two disjoint shards; the store holds     *)
(* what an earlier import left, if there was one; process p has read and   *)
(* parsed file p.                                                          *)
InitCommute ==
  /\ \E pair \in DisjointShards, old \in {<< >>, EarlierResults} :
     \E f \in ResultFilesFor(pair[1]), g \in ResultFilesFor(pair[2]) :
       LET queued == [ matches |-> MarkQueued([m \in MatchIds |-> NewMatch(m)], MatchIds),
                       details |-> {} ]
           store == ImportEntries(queued, old)
       IN /\ matches = store.matches
          /\ details = store.details
          /\ resultsDir = [k \in Slots |-> IF k = 1 THEN JsonFile(f)
                                           ELSE IF k = 2 THEN JsonFile(g) ELSE NoFile]
          /\ importers = [p \in Importers |->
                            [ pc |-> "entries", entries |-> resultsDir[p].entries ]]
          /\ istart = [ matches |-> matches, details |-> details, dir |-> resultsDir,
                        order |-> << 1, 2 >> ]
  /\ batches = [k \in Slots |-> << >>]
  /\ xpc = "idle" /\ xargs = NoArgs /\ xcur = << >> /\ buf = << >>
  /\ fileIdx = 0 /\ xruns = 0 /\ xstart = << >>
  /\ exported = [m \in MatchIds |-> 0]
  /\ wpc = "idle" /\ wargs = NoWArgs /\ batch = << >> /\ wshard = << >>
  /\ results = << >> /\ wruns = 0
  /\ ipc = "idle" /\ jsonFiles = << >> /\ ientries = << >> /\ totals = NoTotals
  /\ iruns = 0 /\ passes = 0
  /\ rawEvents = << >> /\ events = << >> /\ epc = "done"
  /\ checkpoints = {} /\ saved = NoSave /\ call = NoCall /\ ret = NoRet
  /\ exporters = << >>
  /\ fetcher = NoFetcher /\ outDir = {}

SpecCommute == InitCommute /\ [][ImportersStep]_vars

(* The store after the files, one after the other in this order, are       *)
(* imported into the store the run began with.                             *)
OneAfterTheOther(order) ==
  ImportFiles([ matches |-> istart.matches, details |-> istart.details ], order, istart.dir)

ImportersDone == importers # << >> /\ \A p \in Importers : importers[p].pc = "done"

(* C22: two result files about disjoint sets of matches: once both are     *)
(* imported, by two importers whose updateOne calls interleave in any way  *)
(* (one importer after the other included), matches and match_details are  *)
(* what importing file 1 then file 2 gives, and what importing file 2 then *)
(* file 1 gives.                                                           *)
C22_ImportsCommute ==
  ImportersDone =>
    /\ Store = OneAfterTheOther(<< 1, 2 >>)
    /\ Store = OneAfterTheOther(<< 2, 1 >>)

(* Both files held a success entry, the store held details of an earlier   *)
(* import, and both importers are through.                                 *)
C22_Witness ==
  /\ ImportersDone
  /\ istart.details # {}
  /\ \A k \in Importers : \E i \in DOMAIN istart.dir[k].entries :
       /\ IsSuccess(istart.dir[k].entries[i])
       /\ istart.dir[k].entries[i].dateInfo = Absent
  /\ Len(istart.dir[1].entries) = MaxEntries

(* ---------------- two partitioners at the same time -------------------- *)
(* Two export-batches.js processes against one store, each in its own      *)
(* working directory: exporters[p] holds the LIMIT, cursor, buf and fileIdx *)
(* of process p and the batches directory it writes.                        *)
Exporters == 1..2

(* The process has parsed its arguments and connected. *)
ExporterAt(limit) ==
  [ pc |-> "start", args |-> [NoArgs EXCEPT !.limit = limit], cur |-> << >>,
    buf |-> << >>, fileIdx |-> 0, batches |-> [k \in Slots |-> << >>] ]

(* The first turn of for await (const m of cur): the query is run. *)
ExporterOpen(p) ==
  /\ exporters[p].pc = "start"
  /\ exporters' = [exporters EXCEPT ![p].pc = "cursor",
                                    ![p].cur = Cursor(matches, exporters[p].args)]
  /\ UNCHANGED << dbVars, fetchVars, importers, storeVars, batches, exportVars, exported,
                  workerVars, resultsDir, importVars, passes, eventVars >>

(* buf.push(m); if (buf.length===LIMIT) await flush(); *)
ExporterNext(p) ==
  /\ exporters[p].pc = "cursor"
  /\ exporters[p].cur # << >>
  /\ LET grown == Append(exporters[p].buf, Head(exporters[p].cur))
     IN exporters' = [exporters EXCEPT
                        ![p].buf = grown,
                        ![p].cur = Tail(@),
                        ![p].pc = IF Len(grown) = exporters[p].args.limit
                                  THEN "write" ELSE "cursor"]
  /\ UNCHANGED << dbVars, fetchVars, importers, storeVars, batches, exportVars, exported,
                  workerVars, resultsDir, importVars, passes, eventVars >>

(* if (buf.length) await flush();  await client.close(); *)
ExporterTail(p) ==
  /\ exporters[p].pc = "cursor"
  /\ exporters[p].cur = << >>
  /\ exporters' = [exporters EXCEPT
                     ![p].pc = IF exporters[p].buf # << >> THEN "write" ELSE "done"]
  /\ UNCHANGED << dbVars, fetchVars, importers, storeVars, batches, exportVars, exported,
                  workerVars, resultsDir, importVars, passes, eventVars >>

(* flush(), first half: fileIdx++; await fs.writeFile(name, JSON.stringify(buf)) *)
ExporterWrite(p) ==
  /\ exporters[p].pc = "write"
  /\ exporters' = [exporters EXCEPT
                     ![p].fileIdx = @ + 1,
                     ![p].batches[exporters[p].fileIdx + 1] = exporters[p].buf,
                     ![p].pc = "mark"]
  /\ UNCHANGED << dbVars, fetchVars, importers, storeVars, batches, exportVars, exported,
                  workerVars, resultsDir, importVars, passes, eventVars >>

(* flush(), second half: updateMany({ matchId: { $in: ids } }, ..); buf=[] *)
ExporterMark(p) ==
  /\ exporters[p].pc = "mark"
  /\ matches' = MarkQueued(matches, ShardIds(exporters[p].buf))
  /\ exporters' = [exporters EXCEPT ![p].buf = << >>, ![p].pc = "cursor"]
  /\ UNCHANGED << dbVars, fetchVars, importers, details, batches, exportVars, exported,
                  workerVars, resultsDir, importVars, passes, eventVars >>

ExportersStep ==
  \E p \in Exporters :
    \/ ExporterOpen(p)
    \/ ExporterNext(p)
    \/ ExporterTail(p)
    \/ ExporterWrite(p)
    \/ ExporterMark(p)

(* Any store of pending and queued matches; the two processes started.     *)
InitRace ==
  /\ matches \in {[m \in MatchIds |-> [NewMatch(m) EXCEPT !.processingStatus = st[m]]] :
                    st \in [MatchIds -> {"pending", "queued"}]}
  /\ details = {}
  /\ exporters \in [Exporters -> {ExporterAt(limit) : limit \in 1..MaxLimit}]
  /\ batches = [k \in Slots |-> << >>]
  /\ xpc = "idle" /\ xargs = NoArgs /\ xcur = << >> /\ buf = << >>
  /\ fileIdx = 0 /\ xruns = 0 /\ xstart = << >>
  /\ exported = [m \in MatchIds |-> -1]
  /\ wpc = "idle" /\ wargs = NoWArgs /\ batch = << >> /\ wshard = << >>
  /\ results = << >> /\ wruns = 0
  /\ resultsDir = [k \in Slots |-> NoFile]
  /\ ipc = "idle" /\ jsonFiles = << >> /\ ientries = << >> /\ totals = NoTotals
  /\ iruns = 0 /\ istart = NoStart /\ passes = 0
  /\ rawEvents = << >> /\ events = << >> /\ epc = "done"
  /\ checkpoints = {} /\ saved = NoSave /\ call = NoCall /\ ret = NoRet
  /\ importers = << >>
  /\ fetcher = NoFetcher /\ outDir = {}

SpecRace == InitRace /\ [][ExportersStep]_vars

(* The matches process p has placed in a shard file. *)
PlacedBy(p) == UNION {ShardIds(exporters[p].batches[k]) : k \in Slots}

(* C28: no match is placed in a shard by both of two partitioner runs on   *)
(* one store, whether one runs after the other or their reads and bulk     *)
(* updates interleave (nothing resets a match to pending here).            *)
C28_ShardsDisjointAcrossRuns ==
  exporters # << >> => PlacedBy(1) \cap PlacedBy(2) = {}

(* One run after the other: at most one process is between its query and  *)
(* its end.                                                                *)
InTurn == \E p \in Exporters : \A q \in Exporters \ {p} : exporters[q].pc \in {"start", "done"}

SpecInTurn == InitRace /\ [][ExportersStep /\ InTurn']_vars

(* ---------------- the importer on result files of any content --------- *)
(* A result that lacks matchId. *)
NoMatchId == 0

(* The match the store does not hold. *)
UnknownMatch == NumMatches

(* What an entry of a result file can be: the entries the workers write    *)
(* about a stored match, a success entry about a match the store does not  *)
(* hold, one without matchId, one with dateInfo but without details, null. *)
AnyEntries ==
  LET known == [ matchId |-> 1, scrapeId |-> NewMatch(1).scrapeId ]
      summary == [ dateInfo |-> "d1", payload |-> "p1" ]
  IN { OkEntry("batch", known, summary),
       OkEntry("mem", known, summary),
       ErrEntry(known, "timeout"),
       OkEntry("batch", [ matchId |-> UnknownMatch, scrapeId |-> 1 ], summary),
       OkEntry("batch", [ matchId |-> NoMatchId, scrapeId |-> 1 ], summary),
       [ OkEntry("mem", known, summary) EXCEPT !.dateInfo = "d1" ],
       NullEntry }

(* The store holds every match but UnknownMatch, queued; the results       *)
(* directory holds a file of one to MaxEntries entries and maybe a second  *)
(* file, damaged or of one entry.                                          *)
InitAnyEntries ==
  /\ matches = MarkQueued([m \in MatchIds \ {UnknownMatch} |-> NewMatch(m)], MatchIds)
  /\ details = {}
  /\ \E f \in {r \in SeqsUpTo(AnyEntries, MaxEntries) : r # << >>},
        g \in {NoFile, [ kind |-> "garbage", entries |-> << >> ]}
                 \cup {JsonFile(<< e >>) : e \in AnyEntries} :
       resultsDir = [k \in Slots |-> IF k = 1 THEN JsonFile(f)
                                        ELSE IF k = 2 THEN g ELSE NoFile]
  /\ batches = [k \in Slots |-> << >>]
  /\ xpc = "idle" /\ xargs = NoArgs /\ xcur = << >> /\ buf = << >>
  /\ fileIdx = 0 /\ xruns = 0 /\ xstart = << >>
  /\ exported = [m \in MatchIds |-> 0]
  /\ wpc = "idle" /\ wargs = NoWArgs /\ batch = << >> /\ wshard = << >>
  /\ results = << >> /\ wruns = 0
  /\ ipc = "idle" /\ jsonFiles = << >> /\ ientries = << >> /\ totals = NoTotals
  /\ iruns = 0 /\ istart = NoStart /\ passes = 0
  /\ rawEvents = << >> /\ events = << >> /\ epc = "done"
  /\ checkpoints = {} /\ saved = NoSave /\ call = NoCall /\ ret = NoRet
  /\ importers = << >> /\ exporters = << >>
  /\ fetcher = NoFetcher /\ outDir = {}

SpecAnyEntries == InitAnyEntries /\ [][ImportStep \/ ImportNullEntry]_vars

(* C29: every match_details document has the matchId of a document of      *)
(* matches, whatever has been imported.                                    *)
C29_DetailsHaveMatch ==
  \A doc \in details : doc.matchId \in DOMAIN matches

RECURSIVE EntriesIn(_, _)
(* The number of entries in the parseable files among slots 1..k of dir. *)
EntriesIn(dir, k) ==
  IF k = 0 THEN 0
  ELSE EntriesIn(dir, k - 1) + (IF dir[k].kind = "json" THEN Len(dir[k].entries) ELSE 0)

(* C30: when an importer run ends, processed = successful + errors, and    *)
(* processed is the number of entries of the result files that parsed.     *)
C30_CountsAddUp ==
  ipc = "done" =>
    /\ totals.processed = totals.successful + totals.errors
    /\ totals.processed = EntriesIn(istart.dir, NumMatches)

(* The same for the runs whose result files hold no null entry. *)
CountsAddUpWithoutNull ==
  (/\ ipc = "done"
   /\ \A k \in Slots : \A i \in DOMAIN istart.dir[k].entries :
         ~IsNull(istart.dir[k].entries[i]))
  => /\ totals.processed = totals.successful + totals.errors
     /\ totals.processed = EntriesIn(istart.dir, NumMatches)

(* Every match_details document whose matchId is not in matches came from  *)
(* an entry about an unknown match or without matchId.                     *)
DetailsHaveMatchOrStray ==
  \A doc \in details : doc.matchId \in DOMAIN matches \cup {UnknownMatch, NoMatchId}

(* ===================== fetch-artifacts.js (fetcher) ===================== *)
(* A file or artifact name is the list of its parts: batch-001.json is     *)
(* << "batch-", "001", ".json" >>.                                         *)
DigitOf(n) ==
  CASE n = 0 -> "0" [] n = 1 -> "1" [] n = 2 -> "2" [] n = 3 -> "3" [] n = 4 -> "4"
    [] n = 5 -> "5" [] n = 6 -> "6" [] n = 7 -> "7" [] n = 8 -> "8" [] n = 9 -> "9"

RECURSIVE DigitsOf(_)
(* String(n), n.toString() *)
DigitsOf(n) == IF n < 10 THEN DigitOf(n) ELSE DigitsOf(n \div 10) \o DigitOf(n % 10)

(* .padStart(3, '0') of the digits of n *)
PadStart3(n) ==
  IF n < 10 THEN "00" \o DigitsOf(n)
  ELSE IF n < 100 THEN "0" \o DigitsOf(n)
  ELSE DigitsOf(n)

(* The numbers a shard file can carry. *)
BatchNums == 0..(NumMatches + 1)

(* \d+ *)
IsDigits(part) == \E n \in BatchNums : PadStart3(n) = part

(* parseInt(batchMatch[1], 10) *)
ParseInt(part) == CHOOSE n \in BatchNums : PadStart3(n) = part

(* export-batches.js: `batches/batch-${String(fileIdx).padStart(3,'0')}.json` *)
ShardFileName(k) == << "batch-", PadStart3(k), ".json" >>

(* scrape.yml: name: ${{ matrix.file }}-results, path: output.json *)
ArtifactName(file) == file \o << "-results" >>
OutputJson == << "output", ".json" >>

(* file.endsWith('.json') *)
EndsWithJson(name) == name # << >> /\ name[Len(name)] = ".json"

(* a.name.match(/batch-\d+.*results?/) *)
IsBatchArtifact(name) ==
  \E i \in DOMAIN name :
    /\ name[i] = "batch-"
    /\ i + 1 \in DOMAIN name
    /\ IsDigits(name[i + 1])
    /\ \E j \in (i + 2)..Len(name) : name[j] = "-results"

(* outputFileName: `batch-${batchNumPadded}.json-results` when the         *)
(* artifact name holds batch-(\d+), the artifact name otherwise.           *)
OutputFileName(artifactName) ==
  IF \E i \in DOMAIN artifactName :
       artifactName[i] = "batch-" /\ i + 1 \in DOMAIN artifactName
         /\ IsDigits(artifactName[i + 1])
  THEN LET i == CHOOSE k \in DOMAIN artifactName :
                  artifactName[k] = "batch-" /\ k + 1 \in DOMAIN artifactName
                    /\ IsDigits(artifactName[k + 1])
       IN << "batch-", PadStart3(ParseInt(artifactName[i + 1])), ".json", "-results" >>
  ELSE artifactName

(* A file of a directory. *)
NamedFile(name, file) == [ name |-> name, kind |-> file.kind, entries |-> file.entries ]

(* batchArtifacts = allArtifacts.filter(..): the run's artifacts are       *)
(* listed; none of them a batch artifact ends the script.                  *)
FetchList ==
  /\ fetcher.pc = "list"
  /\ LET batchArtifacts == SelectSeq(fetcher.artifacts, LAMBDA a : IsBatchArtifact(a.name))
     IN fetcher' = [fetcher EXCEPT !.artifacts = batchArtifacts,
                                   !.pc = IF batchArtifacts = << >> THEN "done"
                                          ELSE "artifacts"]
  /\ UNCHANGED << dbVars, peerVars, outDir, storeVars, batches, exportVars, exported,
                  workerVars, resultsDir, importVars, passes, eventVars >>

(* for (const artifact of batchArtifacts): downloaded, unzipped, and each   *)
(* .json file in it written to outDir under outputFileName (the last one   *)
(* written stays); an artifact without a .json file counts as an error.    *)
FetchSave ==
  /\ fetcher.pc = "artifacts"
  /\ fetcher.artifacts # << >>
  /\ LET artifact == Head(fetcher.artifacts)
         extracted == {f \in artifact.files : EndsWithJson(f.name)}
         outputFileName == OutputFileName(artifact.name)
     IN IF extracted = {}
        THEN /\ fetcher' = [fetcher EXCEPT !.artifacts = Tail(@), !.errorCount = @ + 1]
             /\ UNCHANGED outDir
        ELSE \E last \in extracted :
               /\ outDir' = {f \in outDir : f.name # outputFileName}
                              \cup {NamedFile(outputFileName, last)}
               /\ fetcher' = [fetcher EXCEPT
                                !.artifacts = Tail(@),
                                !.successCount = @ + Cardinality(extracted),
                                !.saved = @ \cup {artifact.name}]
  /\ UNCHANGED << dbVars, peerVars, storeVars, batches, exportVars, exported,
                  workerVars, resultsDir, importVars, passes, eventVars >>

(* The download of the artifact fails (response not ok): logged, counted,  *)
(* and the loop goes on.                                                   *)
FetchDownloadFails ==
  /\ fetcher.pc = "artifacts"
  /\ fetcher.artifacts # << >>
  /\ fetcher' = [fetcher EXCEPT !.artifacts = Tail(@), !.errorCount = @ + 1]
  /\ UNCHANGED << dbVars, peerVars, outDir, storeVars, batches, exportVars, exported,
                  workerVars, resultsDir, importVars, passes, eventVars >>

(* The artifacts are done: temp directory removed, counts printed. *)
FetchEnd ==
  /\ fetcher.pc = "artifacts"
  /\ fetcher.artifacts = << >>
  /\ fetcher' = [fetcher EXCEPT !.pc = "done"]
  /\ UNCHANGED << dbVars, peerVars, outDir, storeVars, batches, exportVars, exported,
                  workerVars, resultsDir, importVars, passes, eventVars >>

FetchStep ==
  \/ FetchList
  \/ FetchSave
  \/ FetchDownloadFails
  \/ FetchEnd

(* The ways of laying the files of S out in the slots of a directory. *)
LaidOut(S) ==
  {dir \in [Slots -> S \cup {NoFile}] :
     /\ \A f \in S : \E k \in Slots : dir[k] = f
     /\ \A j, k \in Slots : (j # k /\ dir[j] = dir[k]) => dir[j] = NoFile
     /\ \A k \in Slots : dir[k] # NoFile => \A j \in 1..(k - 1) : dir[j] # NoFile}

(* import-artifacts.js run on the fetcher's directory: files =             *)
(* readdir(ARTIFACTS_DIR); jsonFiles = files.filter(f => f.endsWith('.json')) *)
ImportStartFetched ==
  /\ fetcher.pc = "done"
  /\ ipc = "idle"
  /\ iruns < MaxImports
  /\ resultsDir' \in LaidOut({f \in outDir : EndsWithJson(f.name)})
  /\ jsonFiles' \in Listings(resultsDir')
  /\ ientries' = << >>
  /\ totals' = NoTotals
  /\ ipc' = "file"
  /\ iruns' = iruns + 1
  /\ istart' = [ matches |-> matches, details |-> details, dir |-> resultsDir',
                 order |-> jsonFiles' ]
  /\ passes' = 0
  /\ UNCHANGED << dbVars, peerVars, fetchVars, storeVars, batches, exportVars, exported,
                  workerVars, eventVars >>

(* The artifacts of a workflow run over the shard files of S: one per      *)
(* shard file, holding the worker's output.json about the shard's match.   *)
RunArtifacts(S) ==
  {arts \in [S -> [ name : {ArtifactName(ShardFileName(k)) : k \in S},
                    files : {{NamedFile(OutputJson, JsonFile(<< e >>))} :
                               e \in UNION {{OkEntry("batch", Project(NewMatch(k)),
                                                     [ dateInfo |-> "d1", payload |-> "p1" ]),
                                             ErrEntry(Project(NewMatch(k)), "timeout")} :
                                            k \in S}} ]] :
     \A k \in S :
       /\ arts[k].name = ArtifactName(ShardFileName(k))
       /\ \A f \in arts[k].files : f.entries[1].matchId = k}

(* Files the directory can hold before the fetcher runs. *)
OtherFiles ==
  { NamedFile(OutputJson,
              JsonFile(<< OkEntry("batch", Project(NewMatch(NumMatches)),
                                  [ dateInfo |-> "d1", payload |-> "p2" ]) >>)),
    NamedFile(<< "notes", ".json" >>, [ kind |-> "garbage", entries |-> << >> ]) }

(* Every match queued; a workflow run has finished over shard files        *)
(* batch-001.json .. batch-00n.json, n up to MaxFiles; the fetcher has     *)
(* listed the run's artifacts.                                             *)
InitFetch ==
  /\ matches = MarkQueued([m \in MatchIds |-> NewMatch(m)], MatchIds)
  /\ details = {}
  /\ \E n \in 1..MaxFiles : \E arts \in RunArtifacts(1..n) :
       fetcher = [ pc |-> "list", artifacts |-> [k \in 1..n |-> arts[k]],
                   successCount |-> 0, errorCount |-> 0, saved |-> {} ]
  /\ outDir \in SUBSET OtherFiles
  /\ batches = [k \in Slots |-> << >>]
  /\ xpc = "idle" /\ xargs = NoArgs /\ xcur = << >> /\ buf = << >>
  /\ fileIdx = 0 /\ xruns = 0 /\ xstart = << >>
  /\ exported = [m \in MatchIds |-> 0]
  /\ wpc = "idle" /\ wargs = NoWArgs /\ batch = << >> /\ wshard = << >>
  /\ results = << >> /\ wruns = 0
  /\ resultsDir = [k \in Slots |-> NoFile]
  /\ ipc = "idle" /\ jsonFiles = << >> /\ ientries = << >> /\ totals = NoTotals
  /\ iruns = 0 /\ istart = NoStart /\ passes = 0
  /\ rawEvents = << >> /\ events = << >> /\ epc = "done"
  /\ checkpoints = {} /\ saved = NoSave /\ call = NoCall /\ ret = NoRet
  /\ importers = << >> /\ exporters = << >>

NextFetch ==
  \/ FetchStep
  \/ ImportStartFetched
  \/ ImportFile
  \/ ImportBadFile
  \/ ImportEntry
  \/ ImportFileDone
  \/ ImportEnd

SpecFetch == InitFetch /\ [][NextFetch]_vars

(* The importer read the file of this name in its run. *)
ReadByImporter(name) ==
  \E k \in Slots : istart.dir[k] # NoFile /\ istart.dir[k].name = name

(* C31: when import-artifacts.js has run on the directory fetch-artifacts  *)
(* saved into, every result file the fetcher saved there was read by the   *)
(* importer.                                                               *)
C31_FetchedFilesImported ==
  (fetcher.pc = "done" /\ ipc = "done") =>
    \A a \in fetcher.saved : ReadByImporter(OutputFileName(a))

(* The results of different shards are saved under different names: the    *)
(* directory holds one file for each artifact saved.                       *)
ShardsSavedApart ==
  \A a, b \in fetcher.saved :
    /\ \E f \in outDir : f.name = OutputFileName(a)
    /\ a # b => OutputFileName(a) # OutputFileName(b)

(* ---------------- the scrape step on any extracted list ---------------- *)
InitEvents ==
  /\ matches = [m \in MatchIds |-> NewMatch(m)]
  /\ details = {}
  /\ batches = [k \in Slots |-> << >>]
  /\ xpc = "idle" /\ xargs = NoArgs /\ xcur = << >> /\ buf = << >>
  /\ fileIdx = 0 /\ xruns = 0 /\ xstart = << >>
  /\ exported = [m \in MatchIds |-> -1]
  /\ wpc = "idle" /\ wargs = NoWArgs /\ batch = << >> /\ wshard = << >>
  /\ results = << >> /\ wruns = 0
  /\ resultsDir = [k \in Slots |-> NoFile]
  /\ ipc = "idle" /\ jsonFiles = << >> /\ ientries = << >> /\ totals = NoTotals
  /\ iruns = 0 /\ istart = NoStart /\ passes = 0
  /\ rawEvents \in SeqsUpTo(RawEventSet, MaxEvents)
  /\ events = << >>
  /\ epc = "page"
  /\ checkpoints = {} /\ saved = NoSave /\ call = NoCall /\ ret = NoRet
  /\ importers = << >> /\ exporters = << >>
  /\ fetcher = NoFetcher /\ outDir = {}

SpecEvents == InitEvents /\ [][ExtractEvents]_vars

====
